---- MODULE Spec2Model ----
(***************************************************************************)
(* Model of package jdk.sh/meta: build-time metadata injected with         *)
(* -ldflags -X, validated once by the must* functions while the package's  *)
(* variables are initialised, and read back through the public accessors.  *)
(*                                                                         *)
(* A Go string is modelled as a sequence of one-character strings, a       *)
(* pointer as a sequence of length 0 (nil) or 1 (the object pointed to).   *)
(***************************************************************************)
EXTENDS Integers, Sequences, FiniteSets, TLC

----------------------------------------------------------------------------
(* Characters and strings                                                  *)

Digits == <<"0", "1", "2", "3", "4", "5", "6", "7", "8", "9">>

\* The printable ASCII characters, from the space (32) to the tilde (126).
\* The empty string stands at the place of the backquote (96), which no
\* input uses.
Printable ==
    <<" ", "!", "\"", "#", "$", "%", "&", "'", "(", ")", "*", "+", ",", "-", ".", "/",
      "0", "1", "2", "3", "4", "5", "6", "7", "8", "9", ":", ";", "<", "=", ">", "?",
      "@", "A", "B", "C", "D", "E", "F", "G", "H", "I", "J", "K", "L", "M", "N", "O",
      "P", "Q", "R", "S", "T", "U", "V", "W", "X", "Y", "Z", "[", "\\", "]", "^", "_",
      "", "a", "b", "c", "d", "e", "f", "g", "h", "i", "j", "k", "l", "m", "n", "o",
      "p", "q", "r", "s", "t", "u", "v", "w", "x", "y", "z", "{", "|", "}", "~">>

\* The ASCII code of each character (the value of a Go byte or rune).
Codes ==
    LET codes(p) == [c \in {p[i] : i \in 1..Len(p)} |-> 31 + CHOOSE i \in 1..Len(p) : p[i] = c]
    IN  codes(Printable)

Ord(c) == Codes[c]

\* The character of each byte value; "?" stands for a byte that is not
\* printable ASCII.
Chars == [n \in 0..255 |-> IF n \in 32..126 THEN Printable[n - 31] ELSE "?"]

Chr(n) == Chars[n]

\* lo <= c && c <= hi
Between(lo, c, hi) ==
    LET within(code) == code[lo] <= code[c] /\ code[c] <= code[hi]
    IN  within(Codes)

RECURSIVE Cat(_)
\* Concatenation of a sequence of strings.
Cat(parts) == IF parts = <<>> THEN <<>> ELSE Head(parts) \o Cat(Tail(parts))

RECURSIVE Rep(_, _)
\* strings.Repeat
Rep(s, n) == IF n <= 0 THEN <<>> ELSE s \o Rep(s, n - 1)

\* s[i:] and s[:i] with Go's 0-based offsets.
From(s, i) == SubSeq(s, i + 1, Len(s))
Upto(s, i) == SubSeq(s, 1, i)

HasPrefix(s, p) == Len(s) >= Len(p) /\ SubSeq(s, 1, Len(p)) = p
HasSuffix(s, p) == Len(s) >= Len(p) /\ SubSeq(s, Len(s) - Len(p) + 1, Len(s)) = p

\* strings.Index / strings.LastIndex for a one-character needle: a 0-based
\* offset, or -1.
Index(s, c) == IF \E i \in 1..Len(s) : s[i] = c
               THEN (CHOOSE i \in 1..Len(s) : s[i] = c /\ \A j \in 1..(i - 1) : s[j] # c) - 1
               ELSE -1
LastIndex(s, c) == IF \E i \in 1..Len(s) : s[i] = c
                   THEN (CHOOSE i \in 1..Len(s) : s[i] = c /\ \A j \in (i + 1)..Len(s) : s[j] # c) - 1
                   ELSE -1
Contains(s, c) == \E i \in 1..Len(s) : s[i] = c
Count(s, c) == Cardinality({i \in 1..Len(s) : s[i] = c})

ToLowerChar(c) == IF Between("A", c, "Z") THEN Chr(Ord(c) + 32) ELSE c
ToLower(s) == [i \in 1..Len(s) |-> ToLowerChar(s[i])]

\* The value of a run of decimal digits.
RECURSIVE Atoi(_)
Atoi(s) == IF s = <<>> THEN 0 ELSE 10 * Atoi(Upto(s, Len(s) - 1)) + (Ord(s[Len(s)]) - 48)

IsDigit(c) == Between("0", c, "9")
AllDigits(s) == \A i \in 1..Len(s) : IsDigit(s[i])

----------------------------------------------------------------------------
(* Results of a validator: a value, or a panic carrying the error message  *)

Returns(v) == [panics |-> FALSE, value |-> v, msg |-> <<>>]

\* fmt.Errorf("malformed ldflags value for %s", path)
Malformed(path) == [panics |-> TRUE, value |-> <<>>,
                    msg |-> <<"malformed ldflags value for ", path>>]

----------------------------------------------------------------------------
(* mustSHA                                                                 *)

ishexRune(r) == Between("0", r, "9") \/ Between("a", r, "f") \/ Between("A", r, "F")

gitSHALength == 40

IsLowerHexRune(r) == Between("0", r, "9") \/ Between("a", r, "f")

\* mustSHA taking upper-case hexadecimal digits for SHA characters too.
mustSHAAnyCase(path, raw) ==
    IF raw = <<>> THEN Returns(<<>>)
    ELSE IF Len(raw) # gitSHALength THEN Malformed(path)
    ELSE IF \E i \in 1..Len(raw) : ~ishexRune(raw[i]) THEN Malformed(path)
    ELSE Returns(raw)

\* mustSHA without its test of the length.
mustSHAAnyLength(path, raw) ==
    IF raw = <<>> THEN Returns(<<>>)
    ELSE IF \E i \in 1..Len(raw) : ~IsLowerHexRune(raw[i]) THEN Malformed(path)
    ELSE Returns(raw)

mustSHA(path, raw) ==
    IF raw = <<>> THEN Returns(<<>>)
    ELSE IF Len(raw) # gitSHALength THEN Malformed(path)
    ELSE IF \E i \in 1..Len(raw) : ~IsLowerHexRune(raw[i]) THEN Malformed(path)
    ELSE Returns(raw)

----------------------------------------------------------------------------
(* mustBool                                                                *)

\* strconv.ParseBool: the literals it accepts, and no others.
ParseBoolTrue == {<<"1">>, <<"t">>, <<"T">>, <<"T", "R", "U", "E">>,
                  <<"t", "r", "u", "e">>, <<"T", "r", "u", "e">>}
ParseBoolFalse == {<<"0">>, <<"f">>, <<"F">>, <<"F", "A", "L", "S", "E">>,
                   <<"f", "a", "l", "s", "e">>, <<"F", "a", "l", "s", "e">>}

ParseBool(str) ==
    IF str \in ParseBoolTrue THEN [err |-> FALSE, b |-> TRUE]
    ELSE IF str \in ParseBoolFalse THEN [err |-> FALSE, b |-> FALSE]
    ELSE [err |-> TRUE, b |-> FALSE]

\* mustBool treating a text that is no boolean as malformed.
mustBoolStrict(path, raw) ==
    LET result(parsed) == IF parsed.err THEN Malformed(path) ELSE Returns(parsed.b)
    IN  IF raw = <<>> THEN Returns(FALSE) ELSE result(ParseBool(raw))

\* mustBool reading its text without regard to case.
mustBoolFolding(path, raw) ==
    LET result(parsed) == IF parsed.err THEN Returns(FALSE) ELSE Returns(parsed.b)
    IN  IF raw = <<>> THEN Returns(FALSE) ELSE result(ParseBool(ToLower(raw)))

mustBool(path, raw) ==
    LET result(parsed) == IF ~parsed.err THEN Returns(parsed.b) ELSE Returns(FALSE)
    IN  IF raw = <<>> THEN Returns(FALSE) ELSE result(ParseBool(raw))

----------------------------------------------------------------------------
(* net/url.Parse, as mustURL uses it                                       *)

RECURSIVE IndexStr(_, _)
\* strings.Index for a needle of any length.
IndexStr(s, sub) ==
    IF Len(s) < Len(sub) THEN -1
    ELSE IF HasPrefix(s, sub) THEN 0
    ELSE IF IndexStr(Tail(s), sub) < 0 THEN -1
    ELSE 1 + IndexStr(Tail(s), sub)

IsAlnum(c) == Between("a", c, "z") \/ Between("A", c, "Z") \/ Between("0", c, "9")

ishex(c) == Between("0", c, "9") \/ Between("a", c, "f") \/ Between("A", c, "F")

unhex(c) ==
    LET value(code) ==
            IF 48 <= code /\ code <= 57 THEN code - 48
            ELSE IF 97 <= code /\ code <= 102 THEN code - 97 + 10
            ELSE IF 65 <= code /\ code <= 70 THEN code - 65 + 10
            ELSE 0
    IN  value(Ord(c))

\* The byte that the escape %XY stands for, x and y being its two digits.
unhex2(x, y) == Chr(16 * unhex(x) + unhex(y))

upperhex == <<"0", "1", "2", "3", "4", "5", "6", "7", "8", "9", "A", "B", "C", "D", "E", "F">>

\* shouldEscape(c, mode), for the modes Parse reaches.
shouldEscape(c, mode) ==
    IF IsAlnum(c) THEN FALSE
    ELSE IF mode \in {"encodeHost", "encodeZone"}
            /\ c \in {"!", "$", "&", "'", "(", ")", "*", "+", ",", ";", "=", ":", "[", "]", "<", ">", "\""}
         THEN FALSE
    ELSE IF c \in {"-", "_", ".", "~"} THEN FALSE
    ELSE IF c \in {"$", "&", "+", ",", "/", ":", ";", "=", "?", "@"}
            /\ mode \in {"encodePath", "encodeUserPassword", "encodeFragment"}
         THEN CASE mode = "encodePath" -> c = "?"
                [] mode = "encodeUserPassword" -> c \in {"@", "/", "?", ":"}
                [] mode = "encodeFragment" -> FALSE
    ELSE IF mode = "encodeFragment" /\ c \in {"!", "(", ")", "*"} THEN FALSE
    ELSE TRUE

RECURSIVE unescapeErr(_, _)
\* The first pass of unescape: does it report an error?
unescapeErr(s, mode) ==
    LET escaped(byte) ==
            IF mode = "encodeHost" /\ unhex(s[2]) < 8 /\ Upto(s, 3) # <<"%", "2", "5">> THEN TRUE
            ELSE IF mode = "encodeZone" /\ Upto(s, 3) # <<"%", "2", "5">>
                    /\ byte # " " /\ shouldEscape(byte, "encodeHost") THEN TRUE
            ELSE unescapeErr(From(s, 3), mode)
    IN  IF s = <<>> THEN FALSE
        ELSE IF s[1] = "%"
             THEN IF Len(s) < 3 \/ ~ishex(s[2]) \/ ~ishex(s[3]) THEN TRUE
                  ELSE escaped(unhex2(s[2], s[3]))
        ELSE IF mode \in {"encodeHost", "encodeZone"} /\ Ord(s[1]) < 128 /\ shouldEscape(s[1], mode)
             THEN TRUE
        ELSE unescapeErr(Tail(s), mode)

RECURSIVE unescapeText(_)
\* The second pass of unescape: every %XX replaced by the byte it encodes.
unescapeText(s) ==
    IF s = <<>> THEN <<>>
    ELSE IF s[1] = "%" THEN <<unhex2(s[2], s[3])>> \o unescapeText(From(s, 3))
    ELSE <<s[1]>> \o unescapeText(Tail(s))

unescape(s, mode) ==
    IF unescapeErr(s, mode) THEN [err |-> TRUE, s |-> <<>>]
    ELSE [err |-> FALSE, s |-> unescapeText(s)]

RECURSIVE escape(_, _)
escape(s, mode) ==
    LET hex(code) == <<"%", upperhex[(code \div 16) + 1], upperhex[(code % 16) + 1]>>
    IN  IF s = <<>> THEN <<>>
        ELSE IF shouldEscape(s[1], mode) THEN hex(Ord(s[1])) \o escape(Tail(s), mode)
        ELSE <<s[1]>> \o escape(Tail(s), mode)

\* stringContainsCTLByte
stringContainsCTLByte(s) ==
    LET ctl(code) == \E i \in 1..Len(s) : code[s[i]] < 32 \/ code[s[i]] = 127
    IN  ctl(Codes)

\* The offsets at which getScheme's loop returns.
SchemeStops(rawURL) ==
    {i \in 0..(Len(rawURL) - 1) :
        /\ ~(Between("a", rawURL[i + 1], "z") \/ Between("A", rawURL[i + 1], "Z"))
        /\ (IsDigit(rawURL[i + 1]) \/ rawURL[i + 1] \in {"+", "-", "."}) => i = 0}

getScheme(rawURL) ==
    LET none == [err |-> FALSE, scheme |-> <<>>, path |-> rawURL]
        at(i) ==
            IF rawURL[i + 1] # ":" THEN none
            ELSE IF i = 0 THEN [err |-> TRUE, scheme |-> <<>>, path |-> <<>>]
            ELSE [err |-> FALSE, scheme |-> Upto(rawURL, i), path |-> From(rawURL, i + 1)]
        first(stops) ==
            IF stops = {} THEN none ELSE at(CHOOSE k \in stops : \A j \in stops : k <= j)
    IN  first(SchemeStops(rawURL))

validOptionalPort(port) ==
    IF port = <<>> THEN TRUE
    ELSE IF port[1] # ":" THEN FALSE
    ELSE \A i \in 2..Len(port) : IsDigit(port[i])

\* Binds the value of e to the parameter of F, as a short variable
\* declaration of the code does.
With(e, F(_)) == F(e)

parseHost(host) ==
    LET failed == [err |-> TRUE, s |-> <<>>]
    IN  IF HasPrefix(host, <<"[">>)
        THEN With(LastIndex(host, "]"), LAMBDA i :
             IF i < 0 THEN failed
             ELSE IF ~validOptionalPort(From(host, i + 1)) THEN failed
             ELSE With(IndexStr(Upto(host, i), <<"%", "2", "5">>), LAMBDA zone :
                  IF zone >= 0
                  THEN With(unescape(Upto(host, zone), "encodeHost"), LAMBDA host1 :
                       With(unescape(SubSeq(host, zone + 1, i), "encodeZone"), LAMBDA host2 :
                       With(unescape(From(host, i), "encodeHost"), LAMBDA host3 :
                            IF host1.err \/ host2.err \/ host3.err THEN failed
                            ELSE [err |-> FALSE, s |-> host1.s \o host2.s \o host3.s])))
                  ELSE unescape(host, "encodeHost")))
        ELSE With(LastIndex(host, ":"), LAMBDA colon :
             IF colon # -1 /\ ~validOptionalPort(From(host, colon)) THEN failed
             ELSE unescape(host, "encodeHost"))

validUserinfo(s) ==
    \A i \in 1..Len(s) :
        IsAlnum(s[i]) \/ s[i] \in {"-", ".", "_", ":", "~", "!", "$", "&", "'", "(", ")", "*", "+", ",", ";", "=", "%", "@"}

NoUser == <<>>

parseAuthority(authority) ==
    LET failed == [err |-> TRUE, user |-> NoUser, host |-> <<>>]
    IN  With(LastIndex(authority, "@"), LAMBDA i :
        With(parseHost(IF i < 0 THEN authority ELSE From(authority, i + 1)), LAMBDA h :
             IF h.err THEN failed
             ELSE IF i < 0 THEN [err |-> FALSE, user |-> NoUser, host |-> h.s]
             ELSE With(Upto(authority, i), LAMBDA userinfo :
                  IF ~validUserinfo(userinfo) THEN failed
                  ELSE With(Index(userinfo, ":"), LAMBDA c :
                       With(unescape(IF c < 0 THEN userinfo ELSE Upto(userinfo, c),
                                     "encodeUserPassword"), LAMBDA uname :
                       With(unescape(IF c < 0 THEN <<>> ELSE From(userinfo, c + 1),
                                     "encodeUserPassword"), LAMBDA pass :
                            IF uname.err \/ pass.err THEN failed
                            ELSE [err |-> FALSE, host |-> h.s,
                                  user |-> <<[username |-> uname.s, password |-> pass.s,
                                              passwordSet |-> c >= 0]>>]))))))

\* The zero url.URL.
ZeroURL == [Scheme |-> <<>>, Opaque |-> <<>>, User |-> NoUser, Host |-> <<>>,
            Path |-> <<>>, RawPath |-> <<>>, OmitHost |-> FALSE, ForceQuery |-> FALSE,
            RawQuery |-> <<>>, Fragment |-> <<>>, RawFragment |-> <<>>]

UrlErr == [err |-> TRUE, url |-> ZeroURL]

\* (*URL).setPath
setPath(u0, p) ==
    With(unescape(p, "encodePath"), LAMBDA path :
         IF path.err THEN UrlErr
         ELSE [err |-> FALSE,
               url |-> [u0 EXCEPT !.Path = path.s,
                                   !.RawPath = IF p = escape(path.s, "encodePath") THEN <<>> ELSE p]])

\* (*URL).setFragment
setFragment(u0, f) ==
    With(unescape(f, "encodeFragment"), LAMBDA frag :
         IF frag.err THEN UrlErr
         ELSE [err |-> FALSE,
               url |-> [u0 EXCEPT !.Fragment = frag.s,
                                   !.RawFragment = IF f = escape(frag.s, "encodeFragment") THEN <<>> ELSE f]])

\* The part of parse that follows the scheme and the query: the authority
\* after "//", cut at the first "/", and what is left for the path.
parseHierarchy(url1, rest1) ==
    IF (url1.Scheme # <<>> \/ ~HasPrefix(rest1, <<"/", "/", "/">>))
       /\ HasPrefix(rest1, <<"/", "/">>)
    THEN With(From(rest1, 2), LAMBDA after :
         With(Index(after, "/"), LAMBDA i :
         With(parseAuthority(IF i >= 0 THEN Upto(after, i) ELSE after), LAMBDA auth :
              [err |-> auth.err, rest |-> IF i >= 0 THEN From(after, i) ELSE <<>>,
               url |-> [url1 EXCEPT !.User = auth.user, !.Host = auth.host]])))
    ELSE IF url1.Scheme # <<>> /\ HasPrefix(rest1, <<"/">>)
         THEN [err |-> FALSE, rest |-> rest1, url |-> [url1 EXCEPT !.OmitHost = TRUE]]
    ELSE [err |-> FALSE, rest |-> rest1, url |-> url1]

\* parse(rawURL, viaRequest = false)
parse(rawURL) ==
    IF stringContainsCTLByte(rawURL) THEN UrlErr
    ELSE IF rawURL = <<"*">> THEN [err |-> FALSE, url |-> [ZeroURL EXCEPT !.Path = <<"*">>]]
    ELSE With(getScheme(rawURL), LAMBDA sch :
         IF sch.err THEN UrlErr
         ELSE With(HasSuffix(sch.path, <<"?">>) /\ Count(sch.path, "?") = 1, LAMBDA force :
              With(Index(sch.path, "?"), LAMBDA q :
              With([ZeroURL EXCEPT !.Scheme = ToLower(sch.scheme), !.ForceQuery = force,
                                   !.RawQuery = IF force \/ q < 0 THEN <<>>
                                                ELSE From(sch.path, q + 1)], LAMBDA url1 :
              With(IF force THEN Upto(sch.path, Len(sch.path) - 1)
                   ELSE IF q < 0 THEN sch.path ELSE Upto(sch.path, q), LAMBDA rest1 :
              With(Index(rest1, "/"), LAMBDA slash :
                   IF ~HasPrefix(rest1, <<"/">>) /\ url1.Scheme # <<>>
                   THEN [err |-> FALSE, url |-> [url1 EXCEPT !.Opaque = rest1]]
                   ELSE IF ~HasPrefix(rest1, <<"/">>)
                           /\ Contains(IF slash < 0 THEN rest1 ELSE Upto(rest1, slash), ":")
                        THEN UrlErr
                   ELSE With(parseHierarchy(url1, rest1), LAMBDA hier :
                        IF hier.err THEN UrlErr ELSE setPath(hier.url, hier.rest))))))))

\* url.Parse
Parse(rawURL) ==
    With(Index(rawURL, "#"), LAMBDA h :
    With(parse(IF h < 0 THEN rawURL ELSE Upto(rawURL, h)), LAMBDA parsed :
         IF parsed.err THEN UrlErr
         ELSE IF h < 0 \/ From(rawURL, h + 1) = <<>> THEN parsed
         ELSE setFragment(parsed.url, From(rawURL, h + 1))))

----------------------------------------------------------------------------
(* mustURL                                                                 *)

NilPtr == <<>>
Ptr(v) == <<v>>

\* mustURL without its test of the scheme.
mustURLAnyScheme(path, raw) ==
    LET checked(parsed) ==
            IF parsed.err THEN Malformed(path)
            ELSE IF parsed.url.Host = <<>> THEN Malformed(path)
            ELSE Returns(Ptr(parsed.url))
    IN  IF raw = <<>> THEN Returns(NilPtr) ELSE checked(Parse(raw))

\* mustURL without its test of the host.
mustURLAnyHost(path, raw) ==
    LET checked(parsed) ==
            IF parsed.err THEN Malformed(path)
            ELSE IF parsed.url.Scheme # <<"h", "t", "t", "p">>
                    /\ parsed.url.Scheme # <<"h", "t", "t", "p", "s">> THEN Malformed(path)
            ELSE Returns(Ptr(parsed.url))
    IN  IF raw = <<>> THEN Returns(NilPtr) ELSE checked(Parse(raw))

\* mustURL returning the path as it is written, escapes included.
mustURLRawPath(path, raw) ==
    LET checked(parsed) ==
            IF parsed.err THEN Malformed(path)
            ELSE IF parsed.url.Scheme # <<"h", "t", "t", "p">>
                    /\ parsed.url.Scheme # <<"h", "t", "t", "p", "s">> THEN Malformed(path)
            ELSE IF parsed.url.Host = <<>> THEN Malformed(path)
            ELSE Returns(Ptr([parsed.url EXCEPT !.Path = escape(parsed.url.Path, "encodePath")]))
    IN  IF raw = <<>> THEN Returns(NilPtr) ELSE checked(Parse(raw))

\* mustURL taking a URL that does not parse for an unset one.
mustURLAnySyntax(path, raw) ==
    LET checked(parsed) ==
            IF parsed.err THEN Returns(NilPtr)
            ELSE IF parsed.url.Scheme # <<"h", "t", "t", "p">>
                    /\ parsed.url.Scheme # <<"h", "t", "t", "p", "s">> THEN Malformed(path)
            ELSE IF parsed.url.Host = <<>> THEN Malformed(path)
            ELSE Returns(Ptr(parsed.url))
    IN  IF raw = <<>> THEN Returns(NilPtr) ELSE checked(Parse(raw))

mustURL(path, raw) ==
    LET checked(parsed) ==
            IF parsed.err THEN Malformed(path)
            ELSE IF parsed.url.Scheme # <<"h", "t", "t", "p">>
                    /\ parsed.url.Scheme # <<"h", "t", "t", "p", "s">> THEN Malformed(path)
            ELSE IF parsed.url.Host = <<>> THEN Malformed(path)
            ELSE Returns(Ptr(parsed.url))
    IN  IF raw = <<>> THEN Returns(NilPtr) ELSE checked(Parse(raw))

----------------------------------------------------------------------------
(* time.Parse, as mustTime uses it                                         *)

\* The layout elements (std chunks) the layouts of mustTime contain; every
\* other element of a layout is a literal character.
StdChunks == {"stdWeekDay", "stdZeroDay", "stdMonth", "stdLongYear", "stdZeroMonth",
              "stdHour", "stdZeroMinute", "stdZeroSecond", "stdNumTZ",
              "stdISO8601TZ", "stdISO8601ColonTZ"}

\* time.RFC1123Z = "Mon, 02 Jan 2006 15:04:05 -0700"
RFC1123Z == <<"stdWeekDay", ",", " ", "stdZeroDay", " ", "stdMonth", " ", "stdLongYear", " ",
              "stdHour", ":", "stdZeroMinute", ":", "stdZeroSecond", " ", "stdNumTZ">>

\* time.RFC3339 = "2006-01-02T15:04:05Z07:00"
RFC3339 == <<"stdLongYear", "-", "stdZeroMonth", "-", "stdZeroDay", "T",
             "stdHour", ":", "stdZeroMinute", ":", "stdZeroSecond", "stdISO8601ColonTZ">>

\* "2006-01-02T15:04:05Z0700"
ISO8601NoColon == <<"stdLongYear", "-", "stdZeroMonth", "-", "stdZeroDay", "T",
                    "stdHour", ":", "stdZeroMinute", ":", "stdZeroSecond", "stdISO8601TZ">>

shortDayNames == <<<<"S", "u", "n">>, <<"M", "o", "n">>, <<"T", "u", "e">>, <<"W", "e", "d">>,
                   <<"T", "h", "u">>, <<"F", "r", "i">>, <<"S", "a", "t">>>>

shortMonthNames == <<<<"J", "a", "n">>, <<"F", "e", "b">>, <<"M", "a", "r">>, <<"A", "p", "r">>,
                     <<"M", "a", "y">>, <<"J", "u", "n">>, <<"J", "u", "l">>, <<"A", "u", "g">>,
                     <<"S", "e", "p">>, <<"O", "c", "t">>, <<"N", "o", "v">>, <<"D", "e", "c">>>>

\* isDigit(s, i), i a 0-based offset
isDigitAt(s, i) == Len(s) > i /\ IsDigit(s[i + 1])

\* getnum
getnum(s, fixed) ==
    IF ~isDigitAt(s, 0) THEN [err |-> TRUE, n |-> 0, rest |-> s]
    ELSE IF ~isDigitAt(s, 1)
         THEN IF fixed THEN [err |-> TRUE, n |-> 0, rest |-> s]
              ELSE [err |-> FALSE, n |-> Ord(s[1]) - 48, rest |-> Tail(s)]
    ELSE [err |-> FALSE, n |-> (Ord(s[1]) - 48) * 10 + (Ord(s[2]) - 48), rest |-> From(s, 2)]

\* lookup: the 0-based index of the first name of tab that val starts with,
\* letter case ignored.
lookup(tab, val) ==
    LET found(i) == [err |-> FALSE, n |-> i - 1, rest |-> From(val, Len(tab[i]))]
        first(hits) ==
            IF hits = {} THEN [err |-> TRUE, n |-> -1, rest |-> val]
            ELSE found(CHOOSE k \in hits : \A j \in hits : k <= j)
    IN  first({i \in 1..Len(tab) : Len(val) >= Len(tab[i])
                                   /\ ToLower(Upto(val, Len(tab[i]))) = ToLower(tab[i])})

RECURSIVE cutspace(_)
cutspace(s) == IF s # <<>> /\ s[1] = " " THEN cutspace(Tail(s)) ELSE s

\* skip, for a prefix of one literal character
skip(value, c) ==
    IF c = " "
    THEN IF value # <<>> /\ value[1] # " " THEN [err |-> TRUE, rest |-> value]
         ELSE [err |-> FALSE, rest |-> cutspace(value)]
    ELSE IF value = <<>> \/ value[1] # c THEN [err |-> TRUE, rest |-> value]
    ELSE [err |-> FALSE, rest |-> Tail(value)]

RECURSIVE DigitRun(_, _)
\* The offset n >= from at which a run of digits starting at offset from ends.
DigitRun(value, from) == IF isDigitAt(value, from) THEN DigitRun(value, from + 1) ELSE from

RECURSIVE Pow10(_)
Pow10(n) == IF n <= 0 THEN 1 ELSE 10 * Pow10(n - 1)

\* parseNanoseconds(value, nbytes): value starts with the separator.
parseNanoseconds(value, nbytes) ==
    LET scaled(nb) == Atoi(SubSeq(value, 2, nb)) * Pow10(10 - nb)
    IN  scaled(IF nbytes > 10 THEN 10 ELSE nbytes)

\* The first std chunk of a layout, "" when it has none (nextStdChunk).
nextStd(layout) ==
    IF \E i \in 1..Len(layout) : layout[i] \in StdChunks
    THEN layout[CHOOSE i \in 1..Len(layout) :
                    layout[i] \in StdChunks /\ \A j \in 1..(i - 1) : layout[j] \notin StdChunks]
    ELSE ""

\* The fields parse collects ("time being constructed"); z is "UTC" or "".
ZeroFields == [year |-> 0, month |-> -1, day |-> -1, hour |-> 0, min |-> 0, sec |-> 0,
               nsec |-> 0, z |-> "", zoneOffset |-> -1]

Bad(value, f) == [err |-> TRUE, rest |-> value, f |-> f]
Good(value, f) == [err |-> FALSE, rest |-> value, f |-> f]

\* The numeric zone of stdNumTZ, stdISO8601TZ (colon = FALSE) and
\* stdISO8601ColonTZ (colon = TRUE).
parseNumTZ(colon, value, f) ==
    LET signed(sign, offset, rest) ==
            IF sign = "+" THEN Good(rest, [f EXCEPT !.zoneOffset = offset])
            ELSE IF sign = "-" THEN Good(rest, [f EXCEPT !.zoneOffset = -offset])
            ELSE Bad(value, f)
        zone(hr, mm) ==
            IF hr.err \/ mm.err THEN Bad(value, f)
            ELSE IF hr.n > 24 \/ mm.n > 60 THEN Bad(value, f)
            ELSE signed(value[1], (hr.n * 60 + mm.n) * 60, From(value, IF colon THEN 6 ELSE 5))
    IN  IF (IF colon THEN Len(value) < 6 \/ value[4] # ":" ELSE Len(value) < 5) THEN Bad(value, f)
        ELSE zone(getnum(SubSeq(value, 2, 3), TRUE),
                  getnum(IF colon THEN SubSeq(value, 5, 6) ELSE SubSeq(value, 4, 5), TRUE))

\* One iteration of parse's loop: the std chunk std is matched against
\* value; layout is what follows the chunk.
parseStd(std, layout, value, f) ==
    LET name(r, fields) == IF r.err THEN Bad(value, f) ELSE Good(r.rest, fields)
        number(r, lo, hi, fields) ==
            IF r.err \/ r.n < lo \/ hi < r.n THEN Bad(value, f) ELSE Good(r.rest, fields)
        fraction(r, n) ==
            IF r.err \/ r.n < 0 \/ 60 <= r.n THEN Bad(value, f)
            ELSE IF Len(r.rest) >= 2 /\ r.rest[1] \in {".", ","} /\ isDigitAt(r.rest, 1)
                    /\ nextStd(layout) \notin {"stdFracSecond0", "stdFracSecond9"}
                 \* a fractional second in the input but none in the layout
                 THEN Good(From(r.rest, n), [f EXCEPT !.sec = r.n,
                                                      !.nsec = parseNanoseconds(r.rest, n)])
            ELSE Good(r.rest, [f EXCEPT !.sec = r.n])
        second(r) == fraction(r, DigitRun(r.rest, 2))
        \* getnum is called with fixed = FALSE for stdHour only
        num(r) ==
            CASE std = "stdZeroMonth" -> number(r, 1, 12, [f EXCEPT !.month = r.n])
              [] std = "stdZeroDay" -> name(r, [f EXCEPT !.day = r.n])
              [] std = "stdHour" -> number(r, 0, 23, [f EXCEPT !.hour = r.n])
              [] std = "stdZeroMinute" -> number(r, 0, 59, [f EXCEPT !.min = r.n])
              [] std = "stdZeroSecond" -> second(r)
        named(r) ==
            CASE std = "stdMonth" -> name(r, [f EXCEPT !.month = r.n + 1])
              [] std = "stdWeekDay" -> name(r, f)
    IN  CASE std = "stdLongYear" ->
                IF Len(value) < 4 \/ ~isDigitAt(value, 0) \/ ~AllDigits(Upto(value, 4)) THEN Bad(value, f)
                ELSE Good(From(value, 4), [f EXCEPT !.year = Atoi(Upto(value, 4))])
          [] std \in {"stdMonth", "stdWeekDay"} ->
                named(lookup(IF std = "stdMonth" THEN shortMonthNames ELSE shortDayNames, value))
          [] std \in {"stdZeroMonth", "stdZeroDay", "stdHour", "stdZeroMinute", "stdZeroSecond"} ->
                num(getnum(value, std # "stdHour"))
          [] std \in {"stdISO8601TZ", "stdISO8601ColonTZ", "stdNumTZ"} ->
                IF std # "stdNumTZ" /\ Len(value) >= 1 /\ value[1] = "Z"
                THEN Good(Tail(value), [f EXCEPT !.z = "UTC"])
                ELSE parseNumTZ(std = "stdISO8601ColonTZ", value, f)

RECURSIVE parseLoop(_, _, _)
\* parse's loop over the layout; at its end no text may be left over.
parseLoop(layout, value, f) ==
    LET chunk(r) == IF r.err THEN r ELSE parseLoop(Tail(layout), r.rest, r.f)
        literal(r) == IF r.err THEN Bad(value, f) ELSE parseLoop(Tail(layout), r.rest, f)
    IN  IF layout = <<>>
        THEN IF value # <<>> THEN Bad(value, f) ELSE Good(value, f)
        ELSE IF Head(layout) \in StdChunks
             THEN chunk(parseStd(Head(layout), Tail(layout), value, f))
        ELSE literal(skip(value, Head(layout)))

isLeap(year) == year % 4 = 0 /\ (year % 100 # 0 \/ year % 400 = 0)

daysBefore == <<0, 31, 59, 90, 120, 151, 181, 212, 243, 273, 304, 334, 365>>

daysIn(m, year) ==
    IF m = 2 /\ isLeap(year) THEN 29 ELSE daysBefore[m + 1] - daysBefore[m]

\* time.Date for in-range fields: the instant of the given wall clock read
\* at the given zone offset, as the days since January 1, year 1 UTC and the
\* second of that day (Go keeps one 64-bit count of seconds).
timeDate(year, month, day, hour, min, sec, offset) ==
    LET at(d, s) == [day |-> d + (s \div 86400), sec |-> s % 86400]
    IN  at(365 * (year - 1) + ((year - 1) \div 4) - ((year - 1) \div 100) + ((year - 1) \div 400)
           + daysBefore[month] + (IF isLeap(year) /\ month >= 3 THEN 1 ELSE 0)
           + (day - 1),
           hour * 3600 + min * 60 + sec - offset)

\* A time.Time: an instant and a location.  The location of a time parsed
\* with a numeric zone is time.Local when Local has that offset at that
\* instant and a fabricated fixed zone otherwise; both are the "offset"
\* location here.
TimeAt(at, nsec, loc) == [day |-> at.day, sec |-> at.sec, nsec |-> nsec, loc |-> loc]

UTCLoc == [name |-> "UTC", offset |-> 0]
OffsetLoc(offset) == [name |-> "", offset |-> offset]

TimeErr == [err |-> TRUE, t |-> TimeAt([day |-> 0, sec |-> 0], 0, UTCLoc)]

\* time.Parse(layout, value)
TimeParse(layout, value) ==
    LET in(f, month, day, offset, loc) ==
            [err |-> FALSE,
             t |-> TimeAt(timeDate(f.year, month, day, f.hour, f.min, f.sec, offset), f.nsec, loc)]
        dated(f, month, day) ==
            IF day < 1 \/ day > daysIn(month, f.year) THEN TimeErr
            ELSE IF f.z = "UTC" THEN in(f, month, day, 0, UTCLoc)
            ELSE IF f.zoneOffset # -1 THEN in(f, month, day, f.zoneOffset, OffsetLoc(f.zoneOffset))
            ELSE in(f, month, day, 0, UTCLoc)
        parsed(r) ==
            IF r.err THEN TimeErr
            ELSE dated(r.f, IF r.f.month < 0 THEN 1 ELSE r.f.month,
                       IF r.f.day < 0 THEN 1 ELSE r.f.day)
    IN  parsed(parseLoop(layout, value, ZeroFields))

\* (Time).UTC
UTC(t) == [t EXCEPT !.loc = UTCLoc]

----------------------------------------------------------------------------
(* mustTime                                                                *)

layouts == <<RFC1123Z, RFC3339, ISO8601NoColon>>

RECURSIVE firstParsed(_, _)
\* The loop over the layouts: the result of the first layout under which raw
\* parses, an error when it parses under none.
firstParsed(specs, raw) ==
    LET tried(r) == IF ~r.err THEN r ELSE firstParsed(Tail(specs), raw)
    IN  IF specs = <<>> THEN TimeErr ELSE tried(TimeParse(Head(specs), raw))

\* mustTime returning the time in the zone it was written in.
mustTimeZoned(path, raw) ==
    LET result(r) == IF r.err THEN Malformed(path) ELSE Returns(Ptr(r.t))
    IN  IF raw = <<>> THEN Returns(NilPtr) ELSE result(firstParsed(layouts, raw))

\* mustTime without its test for the unset value.
mustTimeUnsetParsed(path, raw) ==
    LET result(r) == IF r.err THEN Malformed(path) ELSE Returns(Ptr(UTC(r.t)))
    IN  result(firstParsed(layouts, raw))

mustTime(path, raw) ==
    LET result(r) == IF r.err THEN Malformed(path) ELSE Returns(Ptr(UTC(r.t)))
    IN  IF raw = <<>> THEN Returns(NilPtr) ELSE result(firstParsed(layouts, raw))

----------------------------------------------------------------------------
(* mustSemver                                                              *)

RECURSIVE Split(_, _)
\* strings.Split for a one-character separator.
Split(s, c) ==
    IF Index(s, c) < 0 THEN <<s>>
    ELSE <<Upto(s, Index(s, c))>> \o Split(From(s, Index(s, c) + 1), c)

\* 0|[1-9]\d*
IsNumericIdent(s) == s # <<>> /\ AllDigits(s) /\ (s[1] = "0" => Len(s) = 1)

IsIdentChar(c) == IsAlnum(c) \/ c = "-"

\* 0|[1-9]\d*|\d*[a-zA-Z-][0-9a-zA-Z-]*
IsPreReleaseIdent(s) ==
    \/ IsNumericIdent(s)
    \/ /\ \A i \in 1..Len(s) : IsIdentChar(s[i])
       /\ \E i \in 1..Len(s) : ~IsDigit(s[i])

\* [0-9a-zA-Z-]+
IsBuildIdent(s) == s # <<>> /\ \A i \in 1..Len(s) : IsIdentChar(s[i])

\* semverRegex.FindStringSubmatch(str): no match is the empty sequence, a
\* match is the whole text and the five groups, a group that took no part
\* in the match being "".
FindStringSubmatch(str) ==
    LET allPreRelease(ids) == \A i \in 1..Len(ids) : IsPreReleaseIdent(ids[i])
        allBuild(ids) == \A i \in 1..Len(ids) : IsBuildIdent(ids[i])
        groups(nums, dash, pre, plus, build) ==
            IF /\ Len(nums) = 3
               /\ \A i \in 1..3 : IsNumericIdent(nums[i])
               /\ dash >= 0 => allPreRelease(Split(pre, "."))
               /\ plus >= 0 => allBuild(Split(build, "."))
            THEN <<str, nums[1], nums[2], nums[3], pre, build>>
            ELSE <<>>
        core(noBuild, dash, plus, build) ==
            groups(Split(IF dash < 0 THEN noBuild ELSE Upto(noBuild, dash), "."), dash,
                   IF dash < 0 THEN <<>> ELSE From(noBuild, dash + 1), plus, build)
        preRelease(noBuild, plus, build) == core(noBuild, Index(noBuild, "-"), plus, build)
        buildMetadata(plus) ==
            preRelease(IF plus < 0 THEN str ELSE Upto(str, plus), plus,
                       IF plus < 0 THEN <<>> ELSE From(str, plus + 1))
    IN  buildMetadata(Index(str, "+"))

TrimPrefix(s, prefix) == IF HasPrefix(s, prefix) THEN From(s, Len(prefix)) ELSE s

\* mustSemver without the stripping of the leading "v".
mustSemverKeepV(path, raw) ==
    LET groups(matches) ==
            IF Len(matches) = 6
            THEN Returns(<<matches[2], matches[3], matches[4], matches[5], matches[6]>>)
            ELSE Returns(<< <<>>, <<>>, <<>>, <<>>, <<>> >>)
    IN  groups(FindStringSubmatch(raw))

\* mustSemver treating a version that is no semver as malformed.
mustSemverStrict(path, raw) ==
    LET groups(matches) ==
            IF Len(matches) = 6
            THEN Returns(<<matches[2], matches[3], matches[4], matches[5], matches[6]>>)
            ELSE Malformed(path)
    IN  IF raw = <<>> THEN Returns(<< <<>>, <<>>, <<>>, <<>>, <<>> >>)
        ELSE groups(FindStringSubmatch(TrimPrefix(raw, <<"v">>)))

mustSemver(path, raw) ==
    LET groups(matches) ==
            CASE Len(matches) = 6 -> Returns(<<matches[2], matches[3], matches[4], matches[5], matches[6]>>)
              [] Len(matches) = 5 -> Returns(<<matches[2], matches[3], matches[4], matches[5], <<>> >>)
              [] Len(matches) = 4 -> Returns(<<matches[2], matches[3], matches[4], <<>>, <<>> >>)
              [] OTHER -> Returns(<< <<>>, <<>>, <<>>, <<>>, <<>> >>)
    IN  groups(FindStringSubmatch(TrimPrefix(raw, <<"v">>)))

----------------------------------------------------------------------------
(* net/mail.ParseAddress, as mustAuthor uses it, for addresses without     *)
(* quoted strings, comments, groups, domain literals and encoded words     *)

\* isAtext(r, dot); the backquote, also atext, is not in the modelled alphabet.
isAtext(c, dot) ==
    IF c = "." THEN dot
    ELSE IsAlnum(c) \/ c \in {"!", "#", "$", "%", "&", "'", "*", "+", "-", "/", "=", "?", "^", "_", "{", "|", "}", "~"}

RECURSIVE AtextRun(_)
\* The length of the longest prefix of s made of atext and dots.
AtextRun(s) == IF s # <<>> /\ isAtext(s[1], TRUE) THEN 1 + AtextRun(Tail(s)) ELSE 0

\* consumeAtom(dot = true, permissive)
consumeAtom(s, permissive) ==
    LET taken(i, atom) ==
            IF i = 0 THEN [err |-> TRUE, atom |-> <<>>, rest |-> s]
            ELSE IF ~permissive /\ (HasPrefix(atom, <<".">>) \/ IndexStr(atom, <<".", ".">>) >= 0
                                    \/ HasSuffix(atom, <<".">>))
                 THEN [err |-> TRUE, atom |-> <<>>, rest |-> s]
            ELSE [err |-> FALSE, atom |-> atom, rest |-> From(s, i)]
        run(i) == taken(i, Upto(s, i))
    IN  run(AtextRun(s))

\* skipSpace
skipSpace(s) == cutspace(s)

\* consumeAddrSpec: local-part "@" domain
consumeAddrSpec(s) ==
    LET failed == [err |-> TRUE, spec |-> <<>>, rest |-> s]
        spec(localPart, domain) ==
            IF domain.err THEN failed
            ELSE [err |-> FALSE, spec |-> localPart.atom \o <<"@">> \o domain.atom,
                  rest |-> domain.rest]
        afterAt(localPart, s2) ==
            IF s2 = <<>> THEN failed ELSE spec(localPart, consumeAtom(s2, FALSE))
        local(localPart) ==
            IF localPart.err THEN failed
            ELSE IF localPart.rest = <<>> \/ localPart.rest[1] # "@" THEN failed
            ELSE afterAt(localPart, skipSpace(Tail(localPart.rest)))
        start(s1) == IF s1 = <<>> THEN failed ELSE local(consumeAtom(s1, FALSE))
    IN  start(skipSpace(s))

RECURSIVE consumeWords(_)
\* The loop of consumePhrase: the words read, and the text left over.
consumeWords(s) ==
    LET next(word, more) == [words |-> <<word.atom>> \o more.words, rest |-> more.rest]
        word(s1, atom) ==
            IF s1 = <<>> \/ atom.err THEN [words |-> <<>>, rest |-> s1]
            ELSE next(atom, consumeWords(atom.rest))
        start(s1) == word(s1, consumeAtom(s1, TRUE))
    IN  start(skipSpace(s))

RECURSIVE Join(_, _)
\* strings.Join
Join(words, sep) ==
    IF words = <<>> THEN <<>>
    ELSE IF Len(words) = 1 THEN words[1]
    ELSE words[1] \o sep \o Join(Tail(words), sep)

\* consumePhrase
consumePhrase(s) ==
    LET phrase(r) ==
            IF r.words = <<>> THEN [err |-> TRUE, phrase |-> <<>>, rest |-> r.rest]
            ELSE [err |-> FALSE, phrase |-> Join(r.words, <<" ">>), rest |-> r.rest]
    IN  phrase(consumeWords(s))

AddrErr == [err |-> TRUE, Name |-> <<>>, Address |-> <<>>]

\* mail.ParseAddress: one address, with nothing after it.
ParseAddress(address) ==
    LET angle(phrase, spec) ==
            IF spec.err THEN AddrErr
            ELSE IF spec.rest = <<>> \/ spec.rest[1] # ">" THEN AddrErr
            ELSE IF skipSpace(Tail(spec.rest)) # <<>> THEN AddrErr
            ELSE [err |-> FALSE, Name |-> phrase.phrase, Address |-> spec.spec]
        named(phrase, s1) ==
            IF phrase.err THEN AddrErr
            ELSE IF s1 = <<>> \/ s1[1] # "<" THEN AddrErr
            ELSE angle(phrase, consumeAddrSpec(Tail(s1)))
        display(phrase) == named(phrase, skipSpace(phrase.rest))
        mailbox(s, bare) ==
            IF s = <<>> THEN AddrErr
            ELSE IF ~bare.err
                 THEN IF skipSpace(bare.rest) # <<>> THEN AddrErr
                      ELSE [err |-> FALSE, Name |-> <<>>, Address |-> bare.spec]
            ELSE display(IF s[1] # "<" THEN consumePhrase(s)
                         ELSE [err |-> FALSE, phrase |-> <<>>, rest |-> s])
        start(s) == mailbox(s, consumeAddrSpec(s))
    IN  start(skipSpace(address))

----------------------------------------------------------------------------
(* mustAuthor                                                              *)

\* mustAuthor dropping an author that is no mailbox.
mustAuthorDropping(path, raw) ==
    LET names(parsed) ==
            IF parsed.err THEN Returns(<< <<>>, <<>> >>)
            ELSE Returns(<<parsed.Name, parsed.Address>>)
    IN  IF raw = <<>> THEN Returns(<< <<>>, <<>> >>) ELSE names(ParseAddress(raw))

\* mustAuthor keeping only the display name of a mailbox.
mustAuthorNameOnly(path, raw) ==
    LET names(parsed) ==
            IF parsed.err THEN Returns(<<raw, <<>> >>)
            ELSE Returns(<<parsed.Name, <<>> >>)
    IN  IF raw = <<>> THEN Returns(<< <<>>, <<>> >>) ELSE names(ParseAddress(raw))

mustAuthor(path, raw) ==
    LET names(parsed) ==
            IF parsed.err THEN Returns(<<raw, <<>> >>)
            ELSE Returns(<<parsed.Name, parsed.Address>>)
    IN  IF raw = <<>> THEN Returns(<< <<>>, <<>> >>) ELSE names(ParseAddress(raw))

----------------------------------------------------------------------------
(* The package: the raw slots set by the linker, the package variables     *)
(* initialised from them, and the public accessors                         *)

\* The raw slots: package-level string variables, set with -ldflags -X
\* before the program starts and never assigned by the package.
VARIABLES author, author_url, copyright, date, desc, dev, docs, license,
          license_url, name, note, sha, src, title, url, version

\* The package variables holding the validated values.
VARIABLES authorParsed, authorEmailParsed, authorURLParsed, dateParsed,
          devParsed, docsParsed, licenseURLParsed, shaParsed, srcParsed,
          urlParsed, versionMajor, versionMinor, versionPatch,
          versionPreRelease, versionBuild

\* pc: the package variable whose initialiser runs next, "main" once the
\* package is initialised and the program runs, "panic" once it has aborted.
\* panicValue: the message of the error the process died with.
\* validated: how many times the initialiser of each variable has run.
\* ret: the accessor called last and the value it returned.
\* calls: the number of accessor calls made so far.
VARIABLES pc, panicValue, validated, ret, calls

rawVars == <<author, author_url, copyright, date, desc, dev, docs, license,
            license_url, name, note, sha, src, title, url, version>>

parsedVars == <<authorParsed, authorEmailParsed, authorURLParsed, dateParsed,
               devParsed, docsParsed, licenseURLParsed, shaParsed, srcParsed,
               urlParsed, versionMajor, versionMinor, versionPatch,
               versionPreRelease, versionBuild>>

vars == <<rawVars, parsedVars, pc, panicValue, validated, ret, calls>>

\* The number of accessor calls a run makes.
MaxCalls == 2

\* The initialisers of the package, in the order they run (the order of the
\* declarations in meta.go).
InitOrder == <<"authorParsed", "authorURLParsed", "dateParsed", "devParsed", "docsParsed",
               "licenseURLParsed", "shaParsed", "srcParsed", "urlParsed", "versionMajor">>

After(label) ==
    LET i == CHOOSE k \in 1..Len(InitOrder) : InitOrder[k] = label
    IN  IF i = Len(InitOrder) THEN "main" ELSE InitOrder[i + 1]

NoPanic == <<>>
NoCall == [fn |-> "", value |-> <<>>]

\* The state before the first initialiser runs: every package variable has
\* its zero value.
Zeroed ==
    /\ authorParsed = <<>> /\ authorEmailParsed = <<>> /\ authorURLParsed = NilPtr
    /\ dateParsed = NilPtr /\ devParsed = FALSE /\ docsParsed = NilPtr
    /\ licenseURLParsed = NilPtr /\ shaParsed = <<>> /\ srcParsed = NilPtr /\ urlParsed = NilPtr
    /\ versionMajor = <<>> /\ versionMinor = <<>> /\ versionPatch = <<>>
    /\ versionPreRelease = <<>> /\ versionBuild = <<>>
    /\ pc = InitOrder[1] /\ panicValue = NoPanic
    /\ validated = [v \in {InitOrder[i] : i \in 1..Len(InitOrder)} |-> 0]
    /\ ret = NoCall /\ calls = 0

\* An initialiser that recovers from the panic of its validator and goes on.
InitialiseRecovering(label, r) ==
    /\ pc = label
    /\ validated' = [validated EXCEPT ![label] = @ + 1]
    /\ pc' = After(label)
    /\ panicValue' = panicValue
    /\ UNCHANGED <<rawVars, ret, calls>>

\* What one initialiser does besides assigning its variables: it runs once,
\* and a panic of its validator ends the process.
Initialise(label, r) ==
    /\ pc = label
    /\ validated' = [validated EXCEPT ![label] = @ + 1]
    /\ pc' = IF r.panics THEN "panic" ELSE After(label)
    /\ panicValue' = IF r.panics THEN r.msg ELSE panicValue
    /\ UNCHANGED <<rawVars, ret, calls>>

path_author == <<"j", "d", "k", ".", "s", "h", "/", "m", "e", "t", "a", ".", "a", "u", "t", "h", "o", "r">>
path_author_url == <<"j", "d", "k", ".", "s", "h", "/", "m", "e", "t", "a", ".", "a", "u", "t", "h", "o", "r", "_", "u", "r", "l">>
path_date == <<"j", "d", "k", ".", "s", "h", "/", "m", "e", "t", "a", ".", "d", "a", "t", "e">>
path_dev == <<"j", "d", "k", ".", "s", "h", "/", "m", "e", "t", "a", ".", "d", "e", "v">>
path_docs == <<"j", "d", "k", ".", "s", "h", "/", "m", "e", "t", "a", ".", "d", "o", "c", "s">>
path_license_url == <<"j", "d", "k", ".", "s", "h", "/", "m", "e", "t", "a", ".", "l", "i", "c", "e", "n", "s", "e", "_", "u", "r", "l">>
path_sha == <<"j", "d", "k", ".", "s", "h", "/", "m", "e", "t", "a", ".", "s", "h", "a">>
path_src == <<"j", "d", "k", ".", "s", "h", "/", "m", "e", "t", "a", ".", "s", "r", "c">>
path_url == <<"j", "d", "k", ".", "s", "h", "/", "m", "e", "t", "a", ".", "u", "r", "l">>
path_version == <<"j", "d", "k", ".", "s", "h", "/", "m", "e", "t", "a", ".", "v", "e", "r", "s", "i", "o", "n">>

\* var authorParsed, authorEmailParsed = mustAuthor("jdk.sh/meta.author", author)
InitAuthorParsed ==
    \E r \in {mustAuthor(path_author, author)} :
        /\ Initialise("authorParsed", r)
        /\ authorParsed' = IF r.panics THEN authorParsed ELSE r.value[1]
        /\ authorEmailParsed' = IF r.panics THEN authorEmailParsed ELSE r.value[2]
        /\ UNCHANGED <<authorURLParsed, dateParsed, devParsed, docsParsed, licenseURLParsed, shaParsed, srcParsed, urlParsed, versionMajor, versionMinor, versionPatch, versionPreRelease, versionBuild>>

\* var authorURLParsed = mustURL("jdk.sh/meta.author_url", author_url)
InitAuthorURLParsed ==
    \E r \in {mustURL(path_author_url, author_url)} :
        /\ Initialise("authorURLParsed", r)
        /\ authorURLParsed' = IF r.panics THEN authorURLParsed ELSE r.value
        /\ UNCHANGED <<authorParsed, authorEmailParsed, dateParsed, devParsed, docsParsed, licenseURLParsed, shaParsed, srcParsed, urlParsed, versionMajor, versionMinor, versionPatch, versionPreRelease, versionBuild>>

\* var dateParsed = mustTime("jdk.sh/meta.date", date)
InitDateParsed ==
    \E r \in {mustTime(path_date, date)} :
        /\ Initialise("dateParsed", r)
        /\ dateParsed' = IF r.panics THEN dateParsed ELSE r.value
        /\ UNCHANGED <<authorParsed, authorEmailParsed, authorURLParsed, devParsed, docsParsed, licenseURLParsed, shaParsed, srcParsed, urlParsed, versionMajor, versionMinor, versionPatch, versionPreRelease, versionBuild>>

\* var devParsed = mustBool("jdk.sh/meta.dev", dev)
InitDevParsed ==
    \E r \in {mustBool(path_dev, dev)} :
        /\ Initialise("devParsed", r)
        /\ devParsed' = IF r.panics THEN devParsed ELSE r.value
        /\ UNCHANGED <<authorParsed, authorEmailParsed, authorURLParsed, dateParsed, docsParsed, licenseURLParsed, shaParsed, srcParsed, urlParsed, versionMajor, versionMinor, versionPatch, versionPreRelease, versionBuild>>

\* The initialiser of docsParsed naming the url slot.
InitDocsParsedAsURL ==
    \E r \in {mustURL(path_url, docs)} :
        /\ Initialise("docsParsed", r)
        /\ docsParsed' = IF r.panics THEN docsParsed ELSE r.value
        /\ UNCHANGED <<authorParsed, authorEmailParsed, authorURLParsed, dateParsed, devParsed, licenseURLParsed, shaParsed, srcParsed, urlParsed, versionMajor, versionMinor, versionPatch, versionPreRelease, versionBuild>>

\* var docsParsed = mustURL("jdk.sh/meta.docs", docs)
InitDocsParsed ==
    \E r \in {mustURL(path_docs, docs)} :
        /\ Initialise("docsParsed", r)
        /\ docsParsed' = IF r.panics THEN docsParsed ELSE r.value
        /\ UNCHANGED <<authorParsed, authorEmailParsed, authorURLParsed, dateParsed, devParsed, licenseURLParsed, shaParsed, srcParsed, urlParsed, versionMajor, versionMinor, versionPatch, versionPreRelease, versionBuild>>

\* var licenseURLParsed = mustURL("jdk.sh/meta.license_url", license_url)
InitLicenseURLParsed ==
    \E r \in {mustURL(path_license_url, license_url)} :
        /\ Initialise("licenseURLParsed", r)
        /\ licenseURLParsed' = IF r.panics THEN licenseURLParsed ELSE r.value
        /\ UNCHANGED <<authorParsed, authorEmailParsed, authorURLParsed, dateParsed, devParsed, docsParsed, shaParsed, srcParsed, urlParsed, versionMajor, versionMinor, versionPatch, versionPreRelease, versionBuild>>

\* var shaParsed = mustSHA("jdk.sh/meta.sha", sha)
InitShaParsed ==
    \E r \in {mustSHA(path_sha, sha)} :
        /\ Initialise("shaParsed", r)
        /\ shaParsed' = IF r.panics THEN shaParsed ELSE r.value
        /\ UNCHANGED <<authorParsed, authorEmailParsed, authorURLParsed, dateParsed, devParsed, docsParsed, licenseURLParsed, srcParsed, urlParsed, versionMajor, versionMinor, versionPatch, versionPreRelease, versionBuild>>

\* var srcParsed = mustURL("jdk.sh/meta.src", src)
InitSrcParsed ==
    \E r \in {mustURL(path_src, src)} :
        /\ Initialise("srcParsed", r)
        /\ srcParsed' = IF r.panics THEN srcParsed ELSE r.value
        /\ UNCHANGED <<authorParsed, authorEmailParsed, authorURLParsed, dateParsed, devParsed, docsParsed, licenseURLParsed, shaParsed, urlParsed, versionMajor, versionMinor, versionPatch, versionPreRelease, versionBuild>>

\* var urlParsed = mustURL("jdk.sh/meta.url", url)
InitUrlParsed ==
    \E r \in {mustURL(path_url, url)} :
        /\ Initialise("urlParsed", r)
        /\ urlParsed' = IF r.panics THEN urlParsed ELSE r.value
        /\ UNCHANGED <<authorParsed, authorEmailParsed, authorURLParsed, dateParsed, devParsed, docsParsed, licenseURLParsed, shaParsed, srcParsed, versionMajor, versionMinor, versionPatch, versionPreRelease, versionBuild>>

\* var versionMajor, versionMinor, versionPatch, versionPreRelease, versionBuild = mustSemver("jdk.sh/meta.version", version)
InitVersionParsed ==
    \E r \in {mustSemver(path_version, version)} :
        /\ Initialise("versionMajor", r)
        /\ versionMajor' = IF r.panics THEN versionMajor ELSE r.value[1]
        /\ versionMinor' = IF r.panics THEN versionMinor ELSE r.value[2]
        /\ versionPatch' = IF r.panics THEN versionPatch ELSE r.value[3]
        /\ versionPreRelease' = IF r.panics THEN versionPreRelease ELSE r.value[4]
        /\ versionBuild' = IF r.panics THEN versionBuild ELSE r.value[5]
        /\ UNCHANGED <<authorParsed, authorEmailParsed, authorURLParsed, dateParsed, devParsed, docsParsed, licenseURLParsed, shaParsed, srcParsed, urlParsed>>

\* The initialising expressions of the package, were the one of docsParsed to
\* fall back on the memoized url when the docs slot is unset.
InitialiserSharing(label) ==
    CASE label = "authorParsed" -> mustAuthor(path_author, author)
      [] label = "authorURLParsed" -> mustURL(path_author_url, author_url)
      [] label = "dateParsed" -> mustTime(path_date, date)
      [] label = "devParsed" -> mustBool(path_dev, dev)
      [] label = "docsParsed" -> IF docs = <<>> THEN Returns(urlParsed) ELSE mustURL(path_docs, docs)
      [] label = "licenseURLParsed" -> mustURL(path_license_url, license_url)
      [] label = "shaParsed" -> mustSHA(path_sha, sha)
      [] label = "srcParsed" -> mustURL(path_src, src)
      [] label = "urlParsed" -> mustURL(path_url, url)
      [] label = "versionMajor" -> mustSemver(path_version, version)

\* The initialising expression of each package variable: the call of a
\* validator on the variable's own slot.
Initialiser(label) ==
    CASE label = "authorParsed" -> mustAuthor(path_author, author)
      [] label = "authorURLParsed" -> mustURL(path_author_url, author_url)
      [] label = "dateParsed" -> mustTime(path_date, date)
      [] label = "devParsed" -> mustBool(path_dev, dev)
      [] label = "docsParsed" -> mustURL(path_docs, docs)
      [] label = "licenseURLParsed" -> mustURL(path_license_url, license_url)
      [] label = "shaParsed" -> mustSHA(path_sha, sha)
      [] label = "srcParsed" -> mustURL(path_src, src)
      [] label = "urlParsed" -> mustURL(path_url, url)
      [] label = "versionMajor" -> mustSemver(path_version, version)

\* The initialisers run in an order other than that of their declarations:
\* any initialiser that has not run yet runs next.  pc stays where it is
\* until the last one has run or one panics.
InitialiseInAnyOrder ==
    \E label \in {InitOrder[i] : i \in 1..Len(InitOrder)} :
        \E r \in {Initialiser(label)} :
            /\ pc \notin {"main", "panic"}
            /\ validated[label] = 0
            /\ validated' = [validated EXCEPT ![label] = @ + 1]
            /\ pc' = IF r.panics THEN "panic"
                     ELSE IF \A i \in 1..Len(InitOrder) :
                                InitOrder[i] # label => validated[InitOrder[i]] > 0
                          THEN "main"
                          ELSE pc
            /\ panicValue' = IF r.panics THEN r.msg ELSE panicValue
            /\ authorParsed' = IF label = "authorParsed" /\ ~r.panics THEN r.value[1] ELSE authorParsed
            /\ authorEmailParsed' = IF label = "authorParsed" /\ ~r.panics THEN r.value[2] ELSE authorEmailParsed
            /\ authorURLParsed' = IF label = "authorURLParsed" /\ ~r.panics THEN r.value ELSE authorURLParsed
            /\ dateParsed' = IF label = "dateParsed" /\ ~r.panics THEN r.value ELSE dateParsed
            /\ devParsed' = IF label = "devParsed" /\ ~r.panics THEN r.value ELSE devParsed
            /\ docsParsed' = IF label = "docsParsed" /\ ~r.panics THEN r.value ELSE docsParsed
            /\ licenseURLParsed' = IF label = "licenseURLParsed" /\ ~r.panics THEN r.value ELSE licenseURLParsed
            /\ shaParsed' = IF label = "shaParsed" /\ ~r.panics THEN r.value ELSE shaParsed
            /\ srcParsed' = IF label = "srcParsed" /\ ~r.panics THEN r.value ELSE srcParsed
            /\ urlParsed' = IF label = "urlParsed" /\ ~r.panics THEN r.value ELSE urlParsed
            /\ versionMajor' = IF label = "versionMajor" /\ ~r.panics THEN r.value[1] ELSE versionMajor
            /\ versionMinor' = IF label = "versionMajor" /\ ~r.panics THEN r.value[2] ELSE versionMinor
            /\ versionPatch' = IF label = "versionMajor" /\ ~r.panics THEN r.value[3] ELSE versionPatch
            /\ versionPreRelease' = IF label = "versionMajor" /\ ~r.panics THEN r.value[4] ELSE versionPreRelease
            /\ versionBuild' = IF label = "versionMajor" /\ ~r.panics THEN r.value[5] ELSE versionBuild
            /\ UNCHANGED <<rawVars, ret, calls>>

NextAnyOrder == InitialiseInAnyOrder

\* An accessor that may be called while the package is still initialising.
ReturnAnytime(fn, v) ==
    /\ pc # "panic"
    /\ calls < MaxCalls
    /\ calls' = calls + 1
    /\ ret' = [fn |-> fn, value |-> v]
    /\ UNCHANGED <<rawVars, parsedVars, pc, panicValue, validated>>

\* A call of an accessor that returns v: a read, possible once the package
\* is initialised.
Return(fn, v) ==
    /\ pc = "main"
    /\ calls < MaxCalls
    /\ calls' = calls + 1
    /\ ret' = [fn |-> fn, value |-> v]
    /\ UNCHANGED <<rawVars, parsedVars, pc, panicValue, validated>>

Arch == Return("Arch", <<"runtime.GOARCH">>)

Author == Return("Author", authorParsed)

AuthorEmail == Return("AuthorEmail", authorEmailParsed)

AuthorURL == Return("AuthorURL", authorURLParsed)

Copyright == Return("Copyright", copyright)

\* Date() parsing the date slot again on every call.
DateRevalidating ==
    \E r \in {mustTime(path_date, date)} :
        /\ pc = "main"
        /\ calls < MaxCalls
        /\ calls' = calls + 1
        /\ validated' = [validated EXCEPT !["dateParsed"] = @ + 1]
        /\ dateParsed' = r.value
        /\ ret' = [fn |-> "Date", value |-> r.value]
        /\ UNCHANGED <<rawVars, authorParsed, authorEmailParsed, authorURLParsed, devParsed, docsParsed, licenseURLParsed, shaParsed, srcParsed, urlParsed, versionMajor, versionMinor, versionPatch, versionPreRelease, versionBuild, pc, panicValue>>

Date == Return("Date", dateParsed)

Description == Return("Description", desc)

Development == Return("Development", devParsed)

Docs == Return("Docs", docsParsed)

Go == Return("Go", <<"runtime.Version()">>)

License == Return("License", license)

LicenseURL == Return("LicenseURL", licenseURLParsed)

Name == Return("Name", name)

Note == Return("Note", note)

OS == Return("OS", <<"runtime.GOOS">>)

SHA == Return("SHA", shaParsed)

\* ShortSHA cutting the SHA one character late.
ShortSHAOffByOne ==
    Return("ShortSHA", IF shaParsed = <<>> THEN <<>> ELSE Upto(shaParsed, 8))

\* The length of the short SHA.
ShortLen == 7

ShortSHA ==
    IF shaParsed # <<>> /\ Len(shaParsed) < ShortLen
    THEN \* shaParsed[:7] is out of range: a run-time panic
         /\ pc = "main"
         /\ calls < MaxCalls
         /\ pc' = "panic"
         /\ panicValue' = <<"runtime error: slice bounds out of range">>
         /\ UNCHANGED <<rawVars, parsedVars, validated, ret, calls>>
    ELSE Return("ShortSHA", IF shaParsed = <<>> THEN <<>> ELSE Upto(shaParsed, ShortLen))

Source == Return("Source", srcParsed)

Title == Return("Title", title)

URL == Return("URL", urlParsed)

Version == Return("Version", version)

VersionBuild == Return("VersionBuild", versionBuild)

VersionMajor == Return("VersionMajor", versionMajor)

VersionMinor == Return("VersionMinor", versionMinor)

VersionPatch == Return("VersionPatch", versionPatch)

VersionPreRelease == Return("VersionPreRelease", versionPreRelease)

Next ==
    \/ InitAuthorParsed
    \/ InitAuthorURLParsed
    \/ InitDateParsed
    \/ InitDevParsed
    \/ InitDocsParsed
    \/ InitLicenseURLParsed
    \/ InitShaParsed
    \/ InitSrcParsed
    \/ InitUrlParsed
    \/ InitVersionParsed
    \/ Arch
    \/ Author
    \/ AuthorEmail
    \/ AuthorURL
    \/ Copyright
    \/ Date
    \/ Description
    \/ Development
    \/ Docs
    \/ Go
    \/ License
    \/ LicenseURL
    \/ Name
    \/ Note
    \/ OS
    \/ SHA
    \/ ShortSHA
    \/ Source
    \/ Title
    \/ URL
    \/ Version
    \/ VersionBuild
    \/ VersionMajor
    \/ VersionMinor
    \/ VersionPatch
    \/ VersionPreRelease

----------------------------------------------------------------------------
(* Builds: the values the linker may have put into the raw slots           *)

Empty == <<>>

GoodURL == <<"h", "t", "t", "p", "s", ":", "/", "/", "e", "x", "a", "m", "p", "l", "e", ".", "c", "o", "m", "/", "p", "a", "g", "e">>
BadURL == <<"e", "x", "a", "m", "p", "l", "e", ".", "c", "o", "m", "/", "p", "a", "g", "e">>
GoodDate == <<"F", "r", "i", ",", " ", "2", "3", " ", "A", "u", "g", " ", "2", "0", "1", "9", " ", "1", "1", ":", "0", "0", ":", "0", "0", " ", "-", "0", "7", "0", "0">>
BadDate == <<"t", "o", "m", "o", "r", "r", "o", "w">>
GoodSHA == <<"b", "b", "2", "f", "e", "c", "b", "b", "4", "a", "2", "8", "7", "e", "a", "4", "c", "1", "f", "9", "8", "8", "7", "c", "a", "8", "6", "d", "d", "0", "e", "b", "7", "f", "f", "2", "8", "e", "c", "6">>
BadSHA == <<"H", "E", "A", "D">>

\* The slots without a fatal validator are all unset, or all set.
Unchecked(set) ==
    /\ author = (IF set THEN <<"J", "a", "n", "e", " ", "D", "o", "e", " ", "<", "j", "d", "o", "e", "@", "e", "x", "a", "m", "p", "l", "e", ".", "c", "o", "m", ">">> ELSE Empty)
    /\ copyright = (IF set THEN <<"2", "0", "2", "1", " ", "J", "a", "n", "e", " ", "D", "o", "e">> ELSE Empty)
    /\ desc = (IF set THEN <<"E", "x", "a", "m", "p", "l", "e", " ", "d", "e", "s", "c", "r", "i", "p", "t", "i", "o", "n">> ELSE Empty)
    /\ dev = (IF set THEN <<"t", "r", "u", "e">> ELSE Empty)
    /\ license = (IF set THEN <<"M", "I", "T">> ELSE Empty)
    /\ name = (IF set THEN <<"d", "e", "m", "o", "-", "a", "p", "p">> ELSE Empty)
    /\ note = (IF set THEN <<"E", "x", "a", "m", "p", "l", "e", " ", "n", "o", "t", "e">> ELSE Empty)
    /\ title = (IF set THEN <<"E", "x", "a", "m", "p", "l", "e", " ", "t", "i", "t", "l", "e">> ELSE Empty)
    /\ version = (IF set THEN <<"v", "1", ".", "2", ".", "3", "-", "r", "c", ".", "4", "5", "6", "+", "b", "u", "i", "l", "d", ".", "7", "8", "9">> ELSE Empty)

\* Any build that leaves each slot with a fatal validator unset, or sets it
\* to a well-formed or to a malformed value.
Init ==
    /\ \E set \in BOOLEAN : Unchecked(set)
    /\ author_url \in {Empty, GoodURL, BadURL}
    /\ date \in {Empty, GoodDate, BadDate}
    /\ docs \in {Empty, GoodURL, BadURL}
    /\ license_url \in {Empty, GoodURL, BadURL}
    /\ sha \in {Empty, GoodSHA, BadSHA}
    /\ src \in {Empty, GoodURL, BadURL}
    /\ url \in {Empty, GoodURL, BadURL}
    /\ Zeroed

Spec == Init /\ [][Next]_vars

\* Builds that set only the sha slot.
SHAInputs ==
    {Rep(<<c>>, n) : c \in {"0", "9", "a", "f", "g", "A", "F", "_"}, n \in {1, 7, 39, 40, 41}}
    \cup {[GoodSHA EXCEPT ![p] = c] : p \in {1, 7, 8, 40}, c \in {"g", "A", "G", "/", ":", " "}}
    \cup {Empty, GoodSHA, BadSHA}

AllUnset(except) ==
    /\ "author" \in except \/ author = Empty
    /\ "author_url" \in except \/ author_url = Empty
    /\ "copyright" \in except \/ copyright = Empty
    /\ "date" \in except \/ date = Empty
    /\ "desc" \in except \/ desc = Empty
    /\ "dev" \in except \/ dev = Empty
    /\ "docs" \in except \/ docs = Empty
    /\ "license" \in except \/ license = Empty
    /\ "license_url" \in except \/ license_url = Empty
    /\ "name" \in except \/ name = Empty
    /\ "note" \in except \/ note = Empty
    /\ "sha" \in except \/ sha = Empty
    /\ "src" \in except \/ src = Empty
    /\ "title" \in except \/ title = Empty
    /\ "url" \in except \/ url = Empty
    /\ "version" \in except \/ version = Empty

InitSHA ==
    /\ sha \in SHAInputs
    /\ AllUnset({"sha"})
    /\ Zeroed

SpecSHA == InitSHA /\ [][Next]_vars

\* Builds that set only the url slot, to a URL put together from parts, or
\* to one of a few odd ones.
URLSchemes == {Empty, <<"h", "t", "t", "p">>, <<"h", "t", "t", "p", "s">>, <<"H", "T", "T", "P">>, <<"H", "t", "t", "p", "s">>, <<"f", "t", "p">>}
URLUsers == {Empty, <<"u", ":", "p", "@">>}
URLHosts == {Empty, <<"e", "x", "a", "m", "p", "l", "e", ".", "c", "o", "m">>, <<"l", "o", "c", "a", "l", "h", "o", "s", "t">>, <<"1", "2", "7", ".", "0", ".", "0", ".", "1">>}
URLPorts == {Empty, <<":", "8", "0", "8", "0">>, <<":", "h", "t", "t", "p">>}
URLPaths == {Empty, <<"/", "d", "e", "m", "o">>, <<"/", "a", "%", "2", "0", "b">>, <<"/", "%", "4", "1">>}
URLQueries == {Empty, <<"?", "q", "=", "1">>}
URLFragments == {Empty, <<"#", "t", "o", "p">>}

URLInputs ==
    {(IF sc = Empty THEN Empty ELSE sc \o <<":", "/", "/">>) \o us \o ho \o po \o pa \o qu \o fr :
        sc \in URLSchemes, us \in URLUsers, ho \in URLHosts, po \in URLPorts,
        pa \in URLPaths, qu \in URLQueries, fr \in URLFragments}
    \cup {<<"h", "t", "t", "p", ":", "/", "/", "/", "x">>, <<"h", "t", "t", "p", ":", "e", "x", "a", "m", "p", "l", "e", ".", "c", "o", "m">>, <<"/", "/", "e", "x", "a", "m", "p", "l", "e", ".", "c", "o", "m", "/", "x">>, <<":", "f", "o", "o">>, <<"h", "t", "t", "p", ":", "/", "/", "[", ":", ":", "1", "]", ":", "8", "0", "/", "x">>, <<"h", "t", "t", "p", ":", "/", "/", "e", "x", "a", " ", "m", "p", "l", "e", ".", "c", "o", "m", "/">>, <<"h", "t", "t", "p", ":", "/", "/", "e", "x", "a", "m", "p", "l", "e", ".", "c", "o", "m", "/", "a", "%", "z", "z">>, <<"h", "t", "t", "p", ":", "/", "/", "e", "x", "a", "m", "p", "l", "e", ".", "c", "o", "m", "?">>}

InitURL ==
    /\ url \in URLInputs
    /\ AllUnset({"url"})
    /\ Zeroed

SpecURL == InitURL /\ [][Next]_vars

\* Builds that set only the date slot, to a time written in one of the
\* forms the date commands produce, or to something else.
TimeFields ==
    {[year |-> d[1], month |-> d[2], day |-> d[3], hour |-> t[1], min |-> t[2], sec |-> t[3],
      offset |-> z] :
        d \in {<<2019, 8, 23>>, <<2021, 9, 15>>, <<2020, 2, 29>>, <<2000, 1, 1>>},
        t \in {<<11, 0, 0>>, <<6, 55, 44>>, <<23, 59, 59>>},
        z \in {-25200, 0, 19800}}

Pad2(n) == <<Digits[(n \div 10) + 1], Digits[(n % 10) + 1]>>
Pad4(n) == Pad2(n \div 100) \o Pad2(n % 100)

\* The days from 1970-01-01 to a date of the civil calendar.
DaysFromCivil(y, m, d) ==
    LET yy == IF m <= 2 THEN y - 1 ELSE y
        era == yy \div 400
        yoe == yy - era * 400
        doy == ((153 * (IF m > 2 THEN m - 3 ELSE m + 9) + 2) \div 5) + d - 1
        doe == yoe * 365 + (yoe \div 4) - (yoe \div 100) + doy
    IN  era * 146097 + doe - 719468

\* 1970-01-01 was a Thursday.
WeekdayName(f) == shortDayNames[((DaysFromCivil(f.year, f.month, f.day) + 4) % 7) + 1]

\* The instant a time written with a zone offset denotes, in UTC.
Instant(f, nsec) ==
    LET secs == f.hour * 3600 + f.min * 60 + f.sec - f.offset
    IN  [day |-> DaysFromCivil(f.year, f.month, f.day) + 719162 + (secs \div 86400),
         sec |-> secs % 86400, nsec |-> nsec, loc |-> UTCLoc]

Clock(f) == Pad2(f.hour) \o <<":">> \o Pad2(f.min) \o <<":">> \o Pad2(f.sec)
Calendar(f) == Pad4(f.year) \o <<"-">> \o Pad2(f.month) \o <<"-">> \o Pad2(f.day)

NumZone(offset, colon) ==
    LET a == IF offset < 0 THEN -offset ELSE offset
    IN  <<IF offset < 0 THEN "-" ELSE "+">> \o Pad2(a \div 3600)
        \o (IF colon THEN <<":">> ELSE <<>>) \o Pad2((a % 3600) \div 60)

ZoneAbbreviation(offset) ==
    CASE offset = -25200 -> <<"P", "D", "T">>
      [] offset = 0 -> <<"U", "T", "C">>
      [] offset = 19800 -> <<"I", "S", "T">>

\* date -R: "Fri, 23 Aug 2019 11:00:00 -0700"
WriteRFC1123Z(f) ==
    WeekdayName(f) \o <<",", " ">> \o Pad2(f.day) \o <<" ">> \o shortMonthNames[f.month] \o <<" ">>
    \o Pad4(f.year) \o <<" ">> \o Clock(f) \o <<" ">> \o NumZone(f.offset, FALSE)

\* date -Iseconds: "2019-08-23T11:00:00-07:00", "2019-08-23T18:00:00Z"
WriteRFC3339(f, fraction) ==
    Calendar(f) \o <<"T">> \o Clock(f) \o fraction
    \o (IF f.offset = 0 THEN <<"Z">> ELSE NumZone(f.offset, TRUE))

\* date: "Wed Sep 15 06:55:44 PDT 2021"
WriteUnixDate(f) ==
    WeekdayName(f) \o <<" ">> \o shortMonthNames[f.month] \o <<" ">>
    \o (IF f.day < 10 THEN <<" ", Digits[f.day + 1]>> ELSE Pad2(f.day)) \o <<" ">>
    \o Clock(f) \o <<" ">> \o ZoneAbbreviation(f.offset) \o <<" ">> \o Pad4(f.year)

\* date --iso-8601=seconds, no colon: "2019-08-23T11:00:00-0700"
WriteISO8601(f) == Calendar(f) \o <<"T">> \o Clock(f) \o NumZone(f.offset, FALSE)

\* The fractions of a second written, and their nanoseconds.
Fractions == {<<<<".", "5">>, 500000000>>, <<<<".", "1", "2", "3", "4", "5", "6", "7", "8", "9">>, 123456789>>}

\* The well-formed dates: the text, the layout it is written in, and the
\* instant it denotes.
DateForms ==
    {[text |-> WriteRFC1123Z(f), layout |-> "RFC1123Z", at |-> Instant(f, 0)] : f \in TimeFields}
    \cup {[text |-> WriteRFC3339(f, <<>>), layout |-> "RFC3339", at |-> Instant(f, 0)] : f \in TimeFields}
    \cup {[text |-> WriteRFC3339(f, fr[1]), layout |-> "RFC3339Nano", at |-> Instant(f, fr[2])] :
            f \in TimeFields, fr \in Fractions}
    \cup {[text |-> WriteUnixDate(f), layout |-> "UnixDate", at |-> Instant(f, 0)] : f \in TimeFields}
    \cup {[text |-> WriteISO8601(f), layout |-> "ISO8601", at |-> Instant(f, 0)] : f \in TimeFields}

MalformedDates == {<<"t", "o", "m", "o", "r", "r", "o", "w">>, <<"t", "o", "d", "a", "y">>, <<"2", "0", "1", "9", "-", "0", "2", "-", "3", "0", "T", "1", "8", ":", "0", "0", ":", "0", "0", "Z">>, <<"2", "0", "1", "9", "-", "0", "8", "-", "2", "3", " ", "1", "8", ":", "0", "0", ":", "0", "0", "Z">>, <<"2", "0", "1", "9", "-", "0", "8", "-", "2", "3", "T", "2", "4", ":", "0", "0", ":", "0", "0", "Z">>, <<"2", "0", "1", "9", "-", "0", "8", "-", "2", "3", "T", "1", "8", ":", "0", "0", ":", "0", "0">>, <<"2", "0", "1", "9", "-", "0", "8", "-", "2", "3">>, <<"2", "0", "1", "9", "-", "0", "8", "-", "2", "3", "T", "1", "8", ":", "0", "0", ":", "0", "0", "Z", "x">>, <<"2", "3", " ", "A", "u", "g", " ", "2", "0", "1", "9", " ", "1", "1", ":", "0", "0", ":", "0", "0", " ", "-", "0", "7", "0", "0">>}

InitTime ==
    /\ date \in {m.text : m \in DateForms} \cup MalformedDates \cup {Empty}
    /\ AllUnset({"date"})
    /\ Zeroed

SpecTime == InitTime /\ [][Next]_vars

\* Builds that set the slots whose validators take any text: author, dev and
\* version.

\* The versions that are semantic versions, put together from their parts:
\* the text, and the five components it is made of.
SemverForms ==
    {[text |-> v \o ma \o <<".">> \o mi \o <<".">> \o pa
                 \o (IF pre = <<>> THEN <<>> ELSE <<"-">> \o pre)
                 \o (IF build = <<>> THEN <<>> ELSE <<"+">> \o build),
      major |-> ma, minor |-> mi, patch |-> pa, preRelease |-> pre, build |-> build] :
        v \in {<<>>, <<"v">>},
        ma \in {<<"0">>, <<"1">>, <<"1", "0">>},
        mi \in {<<"2">>, <<"0">>},
        pa \in {<<"3">>, <<"1", "5">>},
        pre \in {<<>>, <<"r", "c", ".", "4", "5", "6">>, <<"a", "l", "p", "h", "a">>, <<"0">>, <<"x", "-", "y", ".", "1">>, <<"-">>},
        build \in {<<>>, <<"b", "u", "i", "l", "d", ".", "7", "8", "9">>, <<"0", "0", "1">>, <<"a", "-", "b">>}}

\* Versions that are no semantic versions.
NonSemver ==
    {<<"l", "a", "t", "e", "s", "t">>, <<"d", "e", "v", "e", "l", "o", "p", "m", "e", "n", "t">>, <<"1", ".", "2">>, <<"1", ".", "2", ".", "3", ".", "4">>, <<"0", "1", ".", "2", ".", "3">>, <<"1", ".", "0", "2", ".", "3">>,
     <<"1", ".", "2", ".", "3", "-", "0", "1">>, <<"1", ".", "2", ".", "3", "-">>, <<"1", ".", "2", ".", "3", "+">>, <<"v", "v", "1", ".", "2", ".", "3">>, <<"V", "1", ".", "2", ".", "3">>, <<"1", ".", "2", ".", "3", " ">>,
     <<" ", "1", ".", "2", ".", "3">>, <<"v">>, <<"1", ".", "2", ".", "3", "-", "r", "c", ".", ".", "1">>, <<"1", ".", "2", ".", "3", "+", "b", "u", "i", "l", "d", "+", "x">>, <<"v", "1", ".", "2", ".", "x">>,
     <<"1", ".", "2", ".", "3", "-", "r", "c", "_", "1">>, <<"1", ".", "2", ".", "3", "+", "b", ".">>, <<"v", "1", ".", "0", ".", "0", "-", "a", "l", "p", "h", "a", "+">>, <<"1", ".", "2", ".", "3", "v">>}

\* The spellings of a boolean: every mix of cases of true, false, t and f,
\* the digits, and texts that are no boolean.
TrueSpellings ==
    {<<a, b, c, d>> : a \in {"t", "T"}, b \in {"r", "R"}, c \in {"u", "U"}, d \in {"e", "E"}}
    \cup {<<"t">>, <<"T">>, <<"1">>}

FalseSpellings ==
    {<<a, b, c, d, e>> : a \in {"f", "F"}, b \in {"a", "A"}, c \in {"l", "L"},
                         d \in {"s", "S"}, e \in {"e", "E"}}
    \cup {<<"f">>, <<"F">>, <<"0">>}

NonBool ==
    {<<"y", "e", "s">>, <<"n", "o">>, <<"o", "n">>, <<"o", "f", "f">>, <<"2">>, <<"0", "1">>, <<" ", "t", "r", "u", "e">>, <<"t", "r", "u", "e", " ">>, <<"t", "r">>,
     <<"t", "r", "u", "e", "e">>, <<"y">>, <<"-", "1">>}

\* The authors that are a mailbox, put together from their parts: the text,
\* the display name and the address. Blanks around the parts carry no
\* meaning, and the words of a display name are separated by one blank.
AuthorLocals == {<<"j", "d", "o", "e">>, <<"j", ".", "d", "o", "e">>, <<"j", "+", "d">>}
AuthorDomains == {<<"e", "x", "a", "m", "p", "l", "e", ".", "c", "o", "m">>, <<"l", "o", "c", "a", "l", "h", "o", "s", "t">>}
AuthorNames ==
    {<<<<"J", "a", "n", "e", " ", "D", "o", "e", " ">>, <<"J", "a", "n", "e", " ", "D", "o", "e">>>>, <<<<"J", "a", "n", "e">>, <<"J", "a", "n", "e">>>>,
     <<<<"J", "a", "n", "e", " ", " ", " ", "D", "o", "e", " ", " ">>, <<"J", "a", "n", "e", " ", "D", "o", "e">>>>, <<<<"J", ".", " ", "D", "o", "e", " ">>, <<"J", ".", " ", "D", "o", "e">>>>, << <<>>, <<>> >>}

AuthorForms ==
    {[text |-> pad \o l \o <<"@">> \o d \o pad, name |-> <<>>, email |-> l \o <<"@">> \o d] :
        l \in AuthorLocals, d \in AuthorDomains, pad \in {<<>>, <<" ">>}}
    \cup {[text |-> n[1] \o <<"<">> \o pad \o l \o <<"@">> \o d \o <<">">> \o pad,
           name |-> n[2], email |-> l \o <<"@">> \o d] :
            n \in AuthorNames, l \in AuthorLocals, d \in AuthorDomains, pad \in {<<>>, <<" ">>}}

\* Authors that are no mailbox.
NonMailbox ==
    {<<"J", "o", "h", "n", " ", "D", "o", "e">>, <<"J", "a", "n", "e", " ", "D", "o", "e", " ", "<", "e", "x", "a", "m", "p", "l", "e", "@", ">">>, <<"J", "a", "n", "e", " ", "D", "o", "e", " ", "<", "j", "d", "o", "e", "@", "e", "x", "a", "m", "p", "l", "e", ".", "c", "o", "m">>,
     <<"@", "e", "x", "a", "m", "p", "l", "e", ".", "c", "o", "m">>, <<"j", "d", "o", "e", "@">>, <<"J", "a", "n", "e", " ", "<", "a", "@", "b", ">", " ", "x">>, <<"a", "@", "b", " ", "c", "@", "d">>, <<".", "j", "d", "o", "e", "@", "e", "x", "a", "m", "p", "l", "e", ".", "c", "o", "m">>,
     <<"j", ".", ".", "d", "o", "e", "@", "e", "x", "a", "m", "p", "l", "e", ".", "c", "o", "m">>, <<"j", "d", "o", "e", ".", "@", "e", "x", "a", "m", "p", "l", "e", ".", "c", "o", "m">>, <<"J", "a", "n", "e", " ", "D", "o", "e", " ", "j", "d", "o", "e", "@", "e", "x", "a", "m", "p", "l", "e", ".", "c", "o", "m">>,
     <<" ">>, <<"<", ">">>, <<"J", "a", "n", "e", " ", "D", "o", "e", " ", "<", ">">>, <<"j", "d", "o", "e", "@", "e", "x", "a", "m", "p", "l", "e", ".", "c", "o", "m", ">">>, <<"J", "a", "n", "e", ",", " ", "D", "o", "e", " ", "<", "a", "@", "b", ">">>}

InitFreeForm ==
    /\ \/ author \in {m.text : m \in AuthorForms} \cup NonMailbox /\ dev = Empty /\ version = Empty
       \/ dev \in TrueSpellings \cup FalseSpellings \cup NonBool /\ author = Empty /\ version = Empty
       \/ version \in {m.text : m \in SemverForms} \cup NonSemver /\ author = Empty /\ dev = Empty
       \/ /\ author \in {<<"J", "o", "h", "n", " ", "D", "o", "e">>, <<"J", "a", "n", "e", " ", "D", "o", "e", " ", "<", "e", "x", "a", "m", "p", "l", "e", "@", ">">>, <<"J", "a", "n", "e", " ", "D", "o", "e", " ", "<", "j", "d", "o", "e", "@", "e", "x", "a", "m", "p", "l", "e", ".", "c", "o", "m", ">">>}
          /\ dev \in {<<"y", "e", "s">>, <<"t", "R", "u", "E">>, <<"t", "r", "u", "e">>}
          /\ version \in {<<"l", "a", "t", "e", "s", "t">>, <<"1", ".", "2">>, <<"v", "1", ".", "2", ".", "3">>}
    /\ AllUnset({"author", "dev", "version"})
    /\ Zeroed

SpecFreeForm == InitFreeForm /\ [][Next]_vars

\* Builds whose initialisers run in any order: date, sha and url unset,
\* well-formed or malformed, docs unset or well-formed.
InitAnyOrder ==
    /\ \E set \in BOOLEAN : Unchecked(set)
    /\ date \in {Empty, GoodDate, BadDate}
    /\ sha \in {Empty, GoodSHA, BadSHA}
    /\ url \in {Empty, GoodURL, BadURL}
    /\ docs \in {Empty, GoodURL}
    /\ author_url = Empty /\ license_url = Empty /\ src = Empty
    /\ Zeroed

SpecAnyOrder == InitAnyOrder /\ [][NextAnyOrder]_vars

----------------------------------------------------------------------------
(* The caller of the package                                               *)

\* Date, URL, Docs, AuthorURL and LicenseURL
\* return the pointer held in the package variable, so the value a caller
\* holds after the call is the memoized object itself, and an assignment
\* through it is an assignment to that object.

\* The zero time.Time.
ZeroTime == [day |-> 0, sec |-> 0, nsec |-> 0, loc |-> UTCLoc]

CallerHost == <<"e", "v", "i", "l", ".", "e", "x", "a", "m", "p", "l", "e">>

\* The caller runs  *meta.Date() = time.Time{}  on the pointer of its last call.
StoreThroughDate ==
    /\ pc = "main"
    /\ ret.fn = "Date"
    /\ ret.value # NilPtr
    /\ dateParsed' = Ptr(ZeroTime)
    /\ ret' = [ret EXCEPT !.value = Ptr(ZeroTime)]
    /\ UNCHANGED <<rawVars, pc, panicValue, validated, calls, authorParsed, authorEmailParsed, authorURLParsed, devParsed, docsParsed, licenseURLParsed, shaParsed, srcParsed, urlParsed, versionMajor, versionMinor, versionPatch, versionPreRelease, versionBuild>>

\* The caller runs  meta.URL().Host = ...  on the pointer of its last call.
StoreThroughURL ==
    /\ pc = "main"
    /\ ret.fn = "URL"
    /\ ret.value # NilPtr
    /\ urlParsed' = Ptr([ret.value[1] EXCEPT !.Host = CallerHost])
    /\ ret' = [ret EXCEPT !.value = Ptr([ret.value[1] EXCEPT !.Host = CallerHost])]
    /\ UNCHANGED <<rawVars, pc, panicValue, validated, calls, authorParsed, authorEmailParsed, authorURLParsed, dateParsed, devParsed, docsParsed, licenseURLParsed, shaParsed, srcParsed, versionMajor, versionMinor, versionPatch, versionPreRelease, versionBuild>>

\* The caller runs  meta.Docs().Host = ...  on the pointer of its last call.
StoreThroughDocs ==
    /\ pc = "main"
    /\ ret.fn = "Docs"
    /\ ret.value # NilPtr
    /\ docsParsed' = Ptr([ret.value[1] EXCEPT !.Host = CallerHost])
    /\ ret' = [ret EXCEPT !.value = Ptr([ret.value[1] EXCEPT !.Host = CallerHost])]
    /\ UNCHANGED <<rawVars, pc, panicValue, validated, calls, authorParsed, authorEmailParsed, authorURLParsed, dateParsed, devParsed, licenseURLParsed, shaParsed, srcParsed, urlParsed, versionMajor, versionMinor, versionPatch, versionPreRelease, versionBuild>>

\* The caller runs  meta.AuthorURL().Host = ...  on the pointer of its last call.
StoreThroughAuthorURL ==
    /\ pc = "main"
    /\ ret.fn = "AuthorURL"
    /\ ret.value # NilPtr
    /\ authorURLParsed' = Ptr([ret.value[1] EXCEPT !.Host = CallerHost])
    /\ ret' = [ret EXCEPT !.value = Ptr([ret.value[1] EXCEPT !.Host = CallerHost])]
    /\ UNCHANGED <<rawVars, pc, panicValue, validated, calls, authorParsed, authorEmailParsed, dateParsed, devParsed, docsParsed, licenseURLParsed, shaParsed, srcParsed, urlParsed, versionMajor, versionMinor, versionPatch, versionPreRelease, versionBuild>>

\* The caller runs  meta.LicenseURL().Host = ...  on the pointer of its last call.
StoreThroughLicenseURL ==
    /\ pc = "main"
    /\ ret.fn = "LicenseURL"
    /\ ret.value # NilPtr
    /\ licenseURLParsed' = Ptr([ret.value[1] EXCEPT !.Host = CallerHost])
    /\ ret' = [ret EXCEPT !.value = Ptr([ret.value[1] EXCEPT !.Host = CallerHost])]
    /\ UNCHANGED <<rawVars, pc, panicValue, validated, calls, authorParsed, authorEmailParsed, authorURLParsed, dateParsed, devParsed, docsParsed, shaParsed, srcParsed, urlParsed, versionMajor, versionMinor, versionPatch, versionPreRelease, versionBuild>>

NextCaller ==
    \/ Next
    \/ StoreThroughDate
    \/ StoreThroughURL
    \/ StoreThroughDocs
    \/ StoreThroughAuthorURL
    \/ StoreThroughLicenseURL

\* Builds that set the slots whose accessors return pointers.
InitCaller ==
    /\ date \in {Empty, GoodDate}
    /\ url \in {Empty, GoodURL}
    /\ docs \in {Empty, GoodURL}
    /\ author_url \in {Empty, GoodURL}
    /\ license_url \in {Empty, GoodURL}
    /\ AllUnset({"date", "url", "docs", "author_url", "license_url"})
    /\ Zeroed

SpecCaller == InitCaller /\ [][NextCaller]_vars

----------------------------------------------------------------------------
(* Properties                                                              *)

\* The initialiser of the variable has run.
Ran(label) == validated[label] > 0

\* The process died in the initialiser of the variable: it is the last one
\* that ran.
Aborted(label) ==
    /\ pc = "panic"
    /\ Ran(label)
    /\ After(label) # "main" => ~Ran(After(label))

\* The validator of a slot with a fatal validator rejects the slot's value.
Rejected ==
    \/ mustURL(path_author_url, author_url).panics
    \/ mustTime(path_date, date).panics
    \/ mustURL(path_docs, docs).panics
    \/ mustURL(path_license_url, license_url).panics
    \/ mustSHA(path_sha, sha).panics
    \/ mustURL(path_url, url).panics

\* C1: when the value of date, sha, author_url, docs, license_url or url is
\* rejected by its validator, the package never finishes initialising and no
\* accessor ever returns; a rejecting initialiser leaves the process dead.
C1_FailFast ==
    /\ Rejected => pc # "main" /\ ret = NoCall /\ calls = 0
    /\ \A label \in {"authorURLParsed", "dateParsed", "docsParsed", "licenseURLParsed",
                     "shaParsed", "urlParsed"} :
          (Ran(label) /\ pc # "panic") =>
              CASE label = "authorURLParsed" -> ~mustURL(path_author_url, author_url).panics
                [] label = "dateParsed" -> ~mustTime(path_date, date).panics
                [] label = "docsParsed" -> ~mustURL(path_docs, docs).panics
                [] label = "licenseURLParsed" -> ~mustURL(path_license_url, license_url).panics
                [] label = "shaParsed" -> ~mustSHA(path_sha, sha).panics
                [] label = "urlParsed" -> ~mustURL(path_url, url).panics

\* A well-formed date was parsed, then the malformed url ended the process.
C1_Witness == pc = "panic" /\ url = BadURL /\ date = GoodDate /\ dateParsed # NilPtr

\* C2: an unset slot yields the absent value of its type and never a panic,
\* and a build that sets no slot finishes initialising.
C2_UnsetIsAbsent ==
    /\ (Ran("authorParsed") /\ author = Empty) =>
          ~Aborted("authorParsed") /\ authorParsed = <<>> /\ authorEmailParsed = <<>>
    /\ (Ran("authorURLParsed") /\ author_url = Empty) =>
          ~Aborted("authorURLParsed") /\ authorURLParsed = NilPtr
    /\ (Ran("dateParsed") /\ date = Empty) => ~Aborted("dateParsed") /\ dateParsed = NilPtr
    /\ (Ran("devParsed") /\ dev = Empty) => ~Aborted("devParsed") /\ devParsed = FALSE
    /\ (Ran("docsParsed") /\ docs = Empty) => ~Aborted("docsParsed") /\ docsParsed = NilPtr
    /\ (Ran("licenseURLParsed") /\ license_url = Empty) =>
          ~Aborted("licenseURLParsed") /\ licenseURLParsed = NilPtr
    /\ (Ran("shaParsed") /\ sha = Empty) => ~Aborted("shaParsed") /\ shaParsed = <<>>
    /\ (Ran("urlParsed") /\ url = Empty) => ~Aborted("urlParsed") /\ urlParsed = NilPtr
    /\ version = Empty =>
          mustSemver(path_version, version) = Returns(<< <<>>, <<>>, <<>>, <<>>, <<>> >>)
    /\ AllUnset({}) => pc # "panic"

\* The build that sets nothing runs, and Date() has returned nil.
C2_Witness == AllUnset({}) /\ pc = "main" /\ ret = [fn |-> "Date", value |-> NilPtr]

HexLower == {"0", "1", "2", "3", "4", "5", "6", "7", "8", "9", "a", "b", "c", "d", "e", "f"}

\* C3: a set sha is accepted exactly when it is 40 characters of 0-9a-f, and
\* then kept as it is; any other set sha is fatal.
C3_SHAShape ==
    (Ran("shaParsed") /\ sha # Empty) =>
        /\ ~Aborted("shaParsed") <=> (Len(sha) = 40 /\ \A i \in 1..Len(sha) : sha[i] \in HexLower)
        /\ ~Aborted("shaParsed") => shaParsed = sha

\* SHA() has returned a 40-character SHA other than the one of the tests.
C3_Witness == ret.fn = "SHA" /\ ret.value = sha /\ Len(sha) = 40 /\ sha # GoodSHA

\* C4: ShortSHA() returns the first 7 characters of what SHA() returns, or ""
\* when that is "", and the SHA validator has still run only once.
C4_ShortSHA ==
    ret.fn = "ShortSHA" =>
        /\ ret.value = IF shaParsed = <<>> THEN <<>> ELSE [i \in 1..7 |-> shaParsed[i]]
        /\ validated["shaParsed"] = 1

\* ShortSHA() has returned 7 characters.
C4_Witness == ret.fn = "ShortSHA" /\ Len(ret.value) = 7 /\ Len(shaParsed) = 40

\* The parts of a URL as RFC 3986 (appendix B) splits a URI reference.
FirstOf(s, set) ==
    IF \E i \in 1..Len(s) : s[i] \in set
    THEN (CHOOSE i \in 1..Len(s) : s[i] \in set /\ \A j \in 1..(i - 1) : s[j] \notin set) - 1
    ELSE Len(s)

UriScheme(s) ==
    LET i == FirstOf(s, {":", "/", "?", "#"})
    IN  IF 0 < i /\ i < Len(s) /\ s[i + 1] = ":" THEN Upto(s, i) ELSE <<>>

UriHier(s) == IF UriScheme(s) = <<>> THEN s ELSE From(s, Len(UriScheme(s)) + 1)

UriHasAuthority(s) == HasPrefix(UriHier(s), <<"/", "/">>)

UriAuthority(s) ==
    IF UriHasAuthority(s)
    THEN Upto(From(UriHier(s), 2), FirstOf(From(UriHier(s), 2), {"/", "?", "#"}))
    ELSE <<>>

UriAfterAuthority(s) ==
    IF UriHasAuthority(s) THEN From(UriHier(s), 2 + Len(UriAuthority(s))) ELSE UriHier(s)

UriPath(s) == Upto(UriAfterAuthority(s), FirstOf(UriAfterAuthority(s), {"?", "#"}))

UriQuery(s) ==
    LET noFragment == Upto(s, FirstOf(s, {"#"}))
    IN  From(noFragment, FirstOf(noFragment, {"?"}) + 1)

UriFragment(s) == From(s, FirstOf(s, {"#"}) + 1)

\* The authority without its user information.
UriHost(s) == From(UriAuthority(s), LastIndex(UriAuthority(s), "@") + 1)

HttpSchemes == {<<"h", "t", "t", "p">>, <<"h", "t", "t", "p", "s">>}

\* C5 as stated: a set url whose scheme, as it is written, is not exactly
\* http or https is fatal.
C5_SchemeAsWritten ==
    (Ran("urlParsed") /\ url # Empty /\ UriScheme(url) \notin HttpSchemes) => Aborted("urlParsed")

\* C5: a set url whose scheme, lower-cased, is not http or https (no scheme
\* included) is fatal; the scheme of an accepted url is the written one in
\* lower case.
C5_SchemeLowerCased ==
    (Ran("urlParsed") /\ url # Empty) =>
        /\ ToLower(UriScheme(url)) \notin HttpSchemes => Aborted("urlParsed")
        /\ ~Aborted("urlParsed") => urlParsed[1].Scheme = ToLower(UriScheme(url))

\* The process died of an ftp url that has a host.
C5_Witness ==
    /\ Aborted("urlParsed")
    /\ UriScheme(url) = <<"f", "t", "p">>
    /\ UriHost(url) = <<"e", "x", "a", "m", "p", "l", "e", ".", "c", "o", "m">>

\* C6: a set url without a host is fatal, whatever its scheme.
C6_HostRequired ==
    (Ran("urlParsed") /\ url # Empty /\ (UriHost(url) = <<>> \/ Parse(url).url.Host = <<>>)) =>
        Aborted("urlParsed")

\* The process died of "http://".
C6_Witness == Aborted("urlParsed") /\ url = <<"h", "t", "t", "p", ":", "/", "/">>

UriPlain(s) == \A i \in 1..Len(s) : s[i] \notin {"@", "?", "#", "%"}

C8_FiveLayoutsAccepted ==
    (Ran("dateParsed") /\ \E m \in DateForms : m.text = date) => ~Aborted("dateParsed")

\* C9: an accepted date is kept as the instant it denotes, in UTC, whatever
\* layout and zone offset it is written with.
C9_FirstLayoutInUTC ==
    (Ran("dateParsed") /\ date # Empty /\ ~Aborted("dateParsed")) =>
        /\ dateParsed # NilPtr
        /\ dateParsed[1].loc = UTCLoc
        /\ \A m \in DateForms : m.text = date => dateParsed = Ptr(m.at)

\* Date() has returned 2019-08-23 18:00:00 UTC for a date written with the
\* offset -0700.
C9_Witness ==
    /\ ret.fn = "Date"
    /\ date = <<"2", "0", "1", "9", "-", "0", "8", "-", "2", "3", "T", "1", "1", ":", "0", "0", ":", "0", "0", "-", "0", "7", "0", "0">>
    /\ ret.value = Ptr([day |-> 737293, sec |-> 64800, nsec |-> 0, loc |-> UTCLoc])

\* The names of the slots that no validator can reject.
path_copyright == <<"j", "d", "k", ".", "s", "h", "/", "m", "e", "t", "a", ".", "c", "o", "p", "y", "r", "i", "g", "h", "t">>
path_desc == <<"j", "d", "k", ".", "s", "h", "/", "m", "e", "t", "a", ".", "d", "e", "s", "c">>
path_license == <<"j", "d", "k", ".", "s", "h", "/", "m", "e", "t", "a", ".", "l", "i", "c", "e", "n", "s", "e">>
path_name == <<"j", "d", "k", ".", "s", "h", "/", "m", "e", "t", "a", ".", "n", "a", "m", "e">>
path_note == <<"j", "d", "k", ".", "s", "h", "/", "m", "e", "t", "a", ".", "n", "o", "t", "e">>
path_title == <<"j", "d", "k", ".", "s", "h", "/", "m", "e", "t", "a", ".", "t", "i", "t", "l", "e">>

Message(path) == <<"malformed ldflags value for ", path>>

\* C10: the process that dies in the initialiser of a field dies with an
\* error that names that field, and no other.
C10_ErrorNamesField ==
    /\ Aborted("authorURLParsed") => panicValue = Message(path_author_url)
    /\ Aborted("dateParsed") => panicValue = Message(path_date)
    /\ Aborted("docsParsed") => panicValue = Message(path_docs)
    /\ Aborted("licenseURLParsed") => panicValue = Message(path_license_url)
    /\ Aborted("shaParsed") => panicValue = Message(path_sha)
    /\ Aborted("urlParsed") => panicValue = Message(path_url)
    /\ pc = "panic" =>
          Cardinality({p \in {path_author, path_author_url, path_copyright, path_date, path_desc,
                              path_dev, path_docs, path_license, path_license_url, path_name,
                              path_note, path_sha, path_src, path_title, path_url, path_version} :
                          panicValue[2] = p}) = 1

\* The process died of the date "tomorrow", set along with a malformed url.
C10_Witness ==
    /\ Aborted("dateParsed")
    /\ date = BadDate
    /\ url = BadURL
    /\ panicValue = Message(path_date)

\* C11: a version that is a semantic version, with or without one leading
\* "v", is taken apart into its major, minor, patch, pre-release and build
\* components, the last two being "" when the version has none.
C11_SemverComponents ==
    \A m \in SemverForms :
        m.text = version =>
            mustSemver(path_version, version)
                = Returns(<<m.major, m.minor, m.patch, m.preRelease, m.build>>)

\* The program runs with the version of the tests, which has all five parts.
C11_Witness ==
    /\ pc = "main"
    /\ version = <<"v", "1", ".", "2", ".", "3", "-", "r", "c", ".", "4", "5", "6", "+", "b", "u", "i", "l", "d", ".", "7", "8", "9">>
    /\ mustSemver(path_version, version)
           = Returns(<<<<"1">>, <<"2">>, <<"3">>, <<"r", "c", ".", "4", "5", "6">>, <<"b", "u", "i", "l", "d", ".", "7", "8", "9">>>>)

\* C12: a version that is no semantic version has five empty components, is
\* no error, and is still what Version() returns.
C12_FreeFormVersion ==
    version \in NonSemver =>
        /\ mustSemver(path_version, version) = Returns(<< <<>>, <<>>, <<>>, <<>>, <<>> >>)
        /\ ret.fn = "Version" => ret.value = version

\* Version() has returned "latest".
C12_Witness == pc = "main" /\ ret.fn = "Version" /\ ret.value = <<"l", "a", "t", "e", "s", "t">>

\* C13: an author is never an error. An author that is a mailbox gives its
\* display name and its address; any other author gives the whole text as the
\* name, and no email.
C13_AuthorOrRaw ==
    (Ran("authorParsed") /\ author # Empty) =>
        /\ ~Aborted("authorParsed")
        /\ \A m \in AuthorForms :
              m.text = author => authorParsed = m.name /\ authorEmailParsed = m.email
        /\ author \in NonMailbox => authorParsed = author /\ authorEmailParsed = <<>>

\* Author() has returned the whole of an author with an unfinished address.
C13_Witness ==
    /\ ret.fn = "Author"
    /\ author = <<"J", "a", "n", "e", " ", "D", "o", "e", " ", "<", "e", "x", "a", "m", "p", "l", "e", "@", ">">>
    /\ ret.value = author
    /\ authorEmailParsed = <<>>

\* C14: whatever author, dev and version are set to, no initialiser ends the
\* process, and a dev that is unset or no boolean gives false.
C14_NeverFatal ==
    /\ ~Aborted("authorParsed")
    /\ ~Aborted("devParsed")
    /\ ~mustSemver(path_version, version).panics
    /\ pc # "panic"
    /\ (Ran("devParsed") /\ dev \in NonBool \cup {Empty}) => devParsed = FALSE

\* The program runs with an author, a dev and a version that are all
\* malformed, and Development() has returned false.
C14_Witness ==
    /\ author = <<"J", "a", "n", "e", " ", "D", "o", "e", " ", "<", "e", "x", "a", "m", "p", "l", "e", "@", ">">> /\ dev = <<"y", "e", "s">> /\ version = <<"1", ".", "2">>
    /\ ret.fn = "Development" /\ ret.value = FALSE

\* C20 as stated: every mix of cases of true and t, and 1, gives true, and
\* every mix of cases of false and f, and 0, gives false.
C20_CaseInsensitive ==
    Ran("devParsed") =>
        /\ dev \in TrueSpellings => devParsed = TRUE
        /\ dev \in FalseSpellings => devParsed = FALSE

\* C20: the spellings that give true are 1, t, T, true, TRUE and True; every
\* other text, any other mix of cases of true among them, gives false, as do
\* all spellings of false.
C20_StandardSpellings ==
    Ran("devParsed") =>
        devParsed = (dev \in {<<"1">>, <<"t">>, <<"T">>, <<"t", "r", "u", "e">>, <<"T", "R", "U", "E">>, <<"T", "r", "u", "e">>})

\* Development() has returned false for a dev of "tRuE", and true for no
\* other reason than the spelling.
C20_Witness == ret.fn = "Development" /\ dev = <<"t", "R", "u", "E">> /\ ret.value = FALSE

\* What a call of the accessor returns in the current state, were it to run
\* alone.
Memo(fn) ==
    CASE fn = "Arch" -> <<"runtime.GOARCH">>
      [] fn = "Author" -> authorParsed
      [] fn = "AuthorEmail" -> authorEmailParsed
      [] fn = "AuthorURL" -> authorURLParsed
      [] fn = "Copyright" -> copyright
      [] fn = "Date" -> dateParsed
      [] fn = "Description" -> desc
      [] fn = "Development" -> devParsed
      [] fn = "Docs" -> docsParsed
      [] fn = "Go" -> <<"runtime.Version()">>
      [] fn = "License" -> license
      [] fn = "LicenseURL" -> licenseURLParsed
      [] fn = "Name" -> name
      [] fn = "Note" -> note
      [] fn = "OS" -> <<"runtime.GOOS">>
      [] fn = "SHA" -> shaParsed
      [] fn = "ShortSHA" -> IF shaParsed = <<>> THEN <<>> ELSE [i \in 1..7 |-> shaParsed[i]]
      [] fn = "Source" -> srcParsed
      [] fn = "Title" -> title
      [] fn = "URL" -> urlParsed
      [] fn = "Version" -> version
      [] fn = "VersionBuild" -> versionBuild
      [] fn = "VersionMajor" -> versionMajor
      [] fn = "VersionMinor" -> versionMinor
      [] fn = "VersionPatch" -> versionPatch
      [] fn = "VersionPreRelease" -> versionPreRelease

Accessors ==
    {"Arch", "Author", "AuthorEmail", "AuthorURL", "Copyright", "Date", "Description",
     "Development", "Docs", "Go", "License", "LicenseURL", "Name", "Note", "OS", "SHA",
     "ShortSHA", "Source", "Title", "URL", "Version", "VersionBuild", "VersionMajor",
     "VersionMinor", "VersionPatch", "VersionPreRelease"}

Labels == {InitOrder[i] : i \in 1..Len(InitOrder)}

\* C15: every initialiser runs once, before the program runs; a call of an
\* accessor validates nothing, and whatever calls went before, it returns
\* the value memoized at initialisation, which no call changes.
C15_ValidatedOnce ==
    /\ [](/\ \A label \in Labels : validated[label] <= 1
          /\ pc = "main" => \A label \in Labels : validated[label] = 1
          /\ ret.fn # "" => ret.value = Memo(ret.fn))
    /\ [][pc = "main" =>
            /\ validated' = validated
            /\ \A fn \in Accessors : Memo(fn)' = Memo(fn)]_vars

\* URL() has returned the parsed url as the last of as many calls as a run
\* makes, and the url was validated once.
C15_Witness ==
    /\ calls = MaxCalls
    /\ ret.fn = "URL"
    /\ ret.value # NilPtr
    /\ ret.value = urlParsed
    /\ validated["urlParsed"] = 1

\* C17: accessors are called only once every initialiser has run, and a call
\* writes no raw slot and no memoized value: it returns what it would return
\* when run alone, wherever it falls among the calls of other threads.
C17_PureReads ==
    /\ [](ret.fn # "" => (pc = "main" /\ \A label \in Labels : Ran(label)))
    /\ [][pc = "main" =>
            /\ UNCHANGED <<rawVars, parsedVars>>
            /\ ret'.fn \in Accessors
            /\ ret'.value = Memo(ret'.fn)]_vars

\* Date() has returned the parsed date as the last of as many calls as a run
\* makes.
C17_Witness ==
    /\ pc = "main"
    /\ calls = MaxCalls
    /\ ret.fn = "Date"
    /\ date = GoodDate
    /\ ret.value # NilPtr
    /\ ret.value = dateParsed

\* C16 (as stated): once the program runs, no accessor call and no operation
\* of a caller on a value an accessor handed back changes what any accessor
\* returns.
C16_NeverChanges ==
    [][pc = "main" => \A fn \in Accessors : Memo(fn)' = Memo(fn)]_vars

\* What makes a URI reference syntactically invalid, read off the text: a
\* port that is not a number, a blank in the authority, a percent sign that
\* does not start an escape of two hexadecimal digits.
UriDigit == {"0", "1", "2", "3", "4", "5", "6", "7", "8", "9"}

UriBadPort(s) ==
    LET host == UriHost(s)
        colon == LastIndex(host, ":")
    IN  /\ host # <<>>
        /\ host[1] # "["
        /\ colon >= 0
        /\ \E i \in (colon + 2)..Len(host) : host[i] \notin UriDigit

UriBadEscape(s) ==
    \E i \in 1..Len(s) :
        /\ s[i] = "%"
        /\ \/ i + 2 > Len(s)
           \/ \E j \in {i + 1, i + 2} :
                s[j] \notin UriDigit \cup {"a", "b", "c", "d", "e", "f", "A", "B", "C", "D", "E", "F"}

UriInvalid(s) ==
    \/ UriBadPort(s)
    \/ UriBadEscape(s)
    \/ \E i \in 1..Len(UriAuthority(s)) : UriAuthority(s)[i] = " "

\* C19: a set url that does not parse is fatal whatever its scheme and host,
\* and a url with the scheme http or https and a host that is syntactically
\* invalid (a port that is no number, a blank in the host, a broken escape)
\* does not parse: the process dies naming jdk.sh/meta.url.
C19_InvalidIsFatal ==
    (Ran("urlParsed") /\ url # Empty) =>
        /\ Parse(url).err => (Aborted("urlParsed") /\ panicValue = Message(path_url))
        /\ (UriScheme(url) \in HttpSchemes /\ UriHost(url) # <<>> /\ UriInvalid(url)) =>
                (Parse(url).err /\ Aborted("urlParsed"))

\* The process died of "http://localhost:http".
C19_Witness ==
    /\ Aborted("urlParsed")
    /\ url = <<"h", "t", "t", "p", ":", "/", "/", "l", "o", "c", "a", "l", "h", "o", "s", "t", ":", "h", "t", "t", "p">>
    /\ UriScheme(url) = <<"h", "t", "t", "p">>
    /\ UriHost(url) = <<"l", "o", "c", "a", "l", "h", "o", "s", "t", ":", "h", "t", "t", "p">>
    /\ UriBadPort(url)

\* The values initialisation leaves when no validator rejects its slot, each
\* computed from the variable's own slot alone.
Memoized ==
    <<mustAuthor(path_author, author).value[1], mustAuthor(path_author, author).value[2],
      mustURL(path_author_url, author_url).value, mustTime(path_date, date).value,
      mustBool(path_dev, dev).value, mustURL(path_docs, docs).value,
      mustURL(path_license_url, license_url).value, mustSHA(path_sha, sha).value,
      mustURL(path_src, src).value, mustURL(path_url, url).value,
      mustSemver(path_version, version).value[1], mustSemver(path_version, version).value[2],
      mustSemver(path_version, version).value[3], mustSemver(path_version, version).value[4],
      mustSemver(path_version, version).value[5]>>

RejectsSome == Rejected \/ mustURL(path_src, src).panics

\* C18: in whatever order the initialisers run, initialisation ends, and its
\* outcome is decided by the raw values alone: an abort when some validator
\* rejects its slot, and otherwise the values the validators give, each for
\* its own slot.
C18_AnyOrder ==
    /\ pc = "panic" => RejectsSome
    /\ pc = "main" => (~RejectsSome /\ parsedVars = Memoized)
    /\ (\A label \in Labels : Ran(label)) => pc \in {"main", "panic"}

\* The url was parsed before the date, out of the order of the declarations,
\* and the process died of the sha with the malformed date not yet looked at.
C18_Witness ==
    /\ pc = "panic"
    /\ panicValue = Message(path_sha)
    /\ urlParsed # NilPtr
    /\ ~Ran("dateParsed")
    /\ date = BadDate

\* C21: once the package has initialised, the memoized SHA is empty or 40
\* characters long, so the slice ShortSHA() takes is within bounds: no call
\* ends the process, a process that died died of a malformed value before
\* any call, and ShortSHA() returns nothing or 7 characters.
C21_SliceInBounds ==
    /\ pc = "main" => (Len(shaParsed) \in {0, gitSHALength} /\ (shaParsed # <<>> => ShortLen <= Len(shaParsed)))
    /\ pc = "panic" => (calls = 0 /\ ret.fn = "" /\ panicValue = Message(path_sha))
    /\ ret.fn = "ShortSHA" => (pc = "main" /\ Len(ret.value) \in {0, ShortLen})

\* ShortSHA() has returned, twice, the start of a SHA of forty digits 9.
C21_Witness ==
    /\ pc = "main"
    /\ calls = MaxCalls
    /\ ret.fn = "ShortSHA"
    /\ sha = [i \in 1..40 |-> "9"]
    /\ shaParsed = sha
    /\ ret.value = [i \in 1..7 |-> "9"]

\* C22: for a set author, the name and the email are never both empty, and
\* the email is non-empty exactly when the author is a mailbox (one written
\* as a mailbox has an email, one that is no mailbox has none, and the email
\* is there exactly when mail.ParseAddress succeeds); so Author() and
\* AuthorEmail() are both empty only for the unset author.
C22_NameOrEmail ==
    Ran("authorParsed") =>
        /\ author # Empty =>
            /\ ~(authorParsed = <<>> /\ authorEmailParsed = <<>>)
            /\ authorEmailParsed # <<>> <=> ~ParseAddress(author).err
            /\ author \in {m.text : m \in AuthorForms} => authorEmailParsed # <<>>
            /\ author \in NonMailbox => authorEmailParsed = <<>>
        /\ (authorParsed = <<>> /\ authorEmailParsed = <<>>) => author = Empty
        /\ ret.fn = "Author" => ret.value = authorParsed
        /\ ret.fn = "AuthorEmail" => ret.value = authorEmailParsed

\* Author() returned "" and then AuthorEmail() the address of a mailbox
\* written without a display name.
C22_Witness ==
    /\ author = <<"<", "j", "d", "o", "e", "@", "e", "x", "a", "m", "p", "l", "e", ".", "c", "o", "m", ">">>
    /\ authorParsed = <<>>
    /\ calls = MaxCalls
    /\ ret.fn = "AuthorEmail"
    /\ ret.value = <<"j", "d", "o", "e", "@", "e", "x", "a", "m", "p", "l", "e", ".", "c", "o", "m">>

====
